---- MODULE Spec2Model ----
(***************************************************************************)
(* A model of the COH_RL gameplay bot: the screen-derived stats of          *)
(* GameStateMonitor, the decision engine and dispatcher of NovaGameplayAI   *)
(* and the session loop of COHGameplayBot.                                  *)
(*                                                                          *)
(* Python values are records of one shape (PyVal) so that dictionaries may  *)
(* hold strings, numbers, booleans and nested dictionaries side by side.    *)
(* A number is the exact rational n/d together with its Python type         *)
(* (int or float); float rounding is modelled where the code truncates a    *)
(* product, in calibrate_ui_regions.  Durations are in milliseconds.        *)
(***************************************************************************)
EXTENDS Integers, Sequences, FiniteSets, TLC

VARIABLES
    monitors,        \* GameStateMonitor instances: the last_endurance attribute
    calls,           \* per monitor, the detect_combat_state calls made so far
    last,            \* the latest direct call of a NovaGameplayAI method
    pc,              \* run_gameplay_loop: the statement the loop is at
    running,         \* COHGameplayBot.running
    action_count,    \* run_gameplay_loop's local action_count
    stats,           \* run_gameplay_loop's local stats
    decision,        \* run_gameplay_loop's local decision
    execution_success, \* run_gameplay_loop's local execution_success
    action_history,  \* GameplayLogger.action_history
    session_file,    \* what the session log file holds
    events,          \* input events and timed waits issued so far
    trace,           \* the loop steps completed so far, <<cycle, step>>
    cleanups,        \* how many times cleanup has run
    stop_cause,      \* why the loop left its body
    clock,           \* time.time(), in milliseconds
    attacks          \* an AttackController: the attack_chains attribute

vars == <<monitors, calls, last, pc, running, action_count, stats, decision,
          execution_success, action_history, session_file, events, trace,
          cleanups, stop_cause, clock, attacks>>

loopVars == <<pc, running, action_count, stats, decision, execution_success,
              action_history, session_file, trace, cleanups, stop_cause>>

-----------------------------------------------------------------------------
(* Bounds of the model *)

MaxCalls == 3        \* detect_combat_state calls recorded, over both monitors
MaxCycles == 2       \* cycles the session loop may start
MaxFailAt == 4       \* input events before which an input failure may strike
MaxCalibrations == 3 \* calibrate_ui_regions calls on one monitor
MaxSamples == 3      \* health samples one wait_for_health_recovery may take
MaxMoves == 2        \* MovementController calls in a row

-----------------------------------------------------------------------------
(* Python values *)

EmptyItems == [k \in {} |-> 0]

PyNone == [ty |-> "NoneType", s |-> "", n |-> 0, d |-> 1, b |-> FALSE, items |-> EmptyItems]
PyStr(x) == [ty |-> "str", s |-> x, n |-> 0, d |-> 1, b |-> FALSE, items |-> EmptyItems]
PyInt(k) == [ty |-> "int", s |-> "", n |-> k, d |-> 1, b |-> FALSE, items |-> EmptyItems]
PyFloat(num, den) == [ty |-> "float", s |-> "", n |-> num, d |-> den, b |-> FALSE, items |-> EmptyItems]
PyBool(x) == [ty |-> "bool", s |-> "", n |-> 0, d |-> 1, b |-> x, items |-> EmptyItems]
PyDict(f) == [ty |-> "dict", s |-> "", n |-> 0, d |-> 1, b |-> FALSE, items |-> f]
PyList(f) == [ty |-> "list", s |-> "", n |-> 0, d |-> 1, b |-> FALSE, items |-> f]

IsNumber(v) == v.ty \in {"int", "float"}

\* a < b on numbers
NumLt(a, b) == a.n * b.d < b.n * a.d

\* a - b: a float as soon as one operand is
NumSub(a, b) ==
    IF a.ty = "int" /\ b.ty = "int"
    THEN PyInt(a.n - b.n)
    ELSE PyFloat(a.n * b.d - b.n * a.d, a.d * b.d)

\* max(a, b) and min(a, b): the first argument wins a tie
PyMax(a, b) == IF NumLt(a, b) THEN b ELSE a
PyMin(a, b) == IF NumLt(b, a) THEN b ELSE a

\* bool(v)
Truthy(v) ==
    CASE v.ty = "bool" -> v.b
      [] v.ty \in {"int", "float"} -> v.n # 0
      [] v.ty = "str" -> v.s # ""
      [] v.ty \in {"dict", "list"} -> DOMAIN v.items # {}
      [] OTHER -> FALSE

\* d[k] = v on a dict's items
Put(f, k, v) == [j \in (DOMAIN f) \cup {k} |-> IF j = k THEN v ELSE f[j]]

\* d.get(k, default)
Get(dv, k, default) == IF k \in DOMAIN dv.items THEN dv.items[k] ELSE default

-----------------------------------------------------------------------------
(* json.loads on the model's reply text.  A text is a sequence of tokens:   *)
(* punctuation, string literals, numbers, null, and words that are no JSON. *)

Tok(t, s) == [t |-> t, s |-> s]
JStr(s) == Tok("str", s)
Word(s) == Tok("word", s)

ParseFail == [ok |-> FALSE, v |-> PyNone, next |-> 0]
Parsed(v, next) == [ok |-> TRUE, v |-> v, next |-> next]

RECURSIVE ParseValue(_, _)
RECURSIVE ParseMembers(_, _, _)
RECURSIVE ParseElements(_, _, _)

\* the members of an object from the key at t[i] on; acc holds those read
ParseMembers(t, i, acc) ==
    IF i + 1 > Len(t) \/ t[i].t # "str" \/ t[i + 1] # Tok(":", "")
    THEN ParseFail
    ELSE LET r == ParseValue(t, i + 2) IN
         IF ~r.ok \/ r.next > Len(t)
         THEN ParseFail
         ELSE LET acc2 == Put(acc, t[i].s, r.v) IN
              IF t[r.next] = Tok("}", "") THEN Parsed(PyDict(acc2), r.next + 1)
              ELSE IF t[r.next] = Tok(",", "") THEN ParseMembers(t, r.next + 1, acc2)
              ELSE ParseFail

\* the elements of an array from the value at t[i] on
ParseElements(t, i, acc) ==
    LET r == ParseValue(t, i) IN
    IF ~r.ok \/ r.next > Len(t)
    THEN ParseFail
    ELSE LET acc2 == Put(acc, Cardinality(DOMAIN acc) + 1, r.v) IN
         IF t[r.next] = Tok("]", "") THEN Parsed(PyList(acc2), r.next + 1)
         ELSE IF t[r.next] = Tok(",", "") THEN ParseElements(t, r.next + 1, acc2)
         ELSE ParseFail

\* one JSON value starting at t[i]
ParseValue(t, i) ==
    IF i > Len(t) THEN ParseFail
    ELSE CASE t[i].t = "str" -> Parsed(PyStr(t[i].s), i + 1)
           [] t[i].t = "num" -> Parsed(PyInt(1), i + 1)
           [] t[i].t = "null" -> Parsed(PyNone, i + 1)
           [] t[i].t = "{" ->
                IF i + 1 <= Len(t) /\ t[i + 1] = Tok("}", "")
                THEN Parsed(PyDict(EmptyItems), i + 2)
                ELSE ParseMembers(t, i + 1, EmptyItems)
           [] t[i].t = "[" ->
                IF i + 1 <= Len(t) /\ t[i + 1] = Tok("]", "")
                THEN Parsed(PyList(EmptyItems), i + 2)
                ELSE ParseElements(t, i + 1, EmptyItems)
           [] OTHER -> ParseFail

\* json.loads(text): ok = FALSE is JSONDecodeError (also for trailing data)
JsonLoads(t) ==
    LET r == ParseValue(t, 1) IN
    IF r.ok /\ r.next = Len(t) + 1
    THEN [ok |-> TRUE, v |-> r.v]
    ELSE [ok |-> FALSE, v |-> PyNone]

\* reply texts
ObjAR(a, r) == <<Tok("{", ""), JStr("action"), Tok(":", ""), JStr(a), Tok(",", ""),
                 JStr("reason"), Tok(":", ""), JStr(r), Tok("}", "")>>
ObjA(a) == <<Tok("{", ""), JStr("action"), Tok(":", ""), JStr(a), Tok("}", "")>>
ObjR(r) == <<Tok("{", ""), JStr("reason"), Tok(":", ""), JStr(r), Tok("}", "")>>
ObjMeta(a) == <<Tok("{", ""), JStr("scenario"), Tok(":", ""), JStr("combat"), Tok(",", ""),
                JStr("action"), Tok(":", ""), JStr(a), Tok(",", ""),
                JStr("timestamp"), Tok(":", ""), Tok("num", ""), Tok(",", ""),
                JStr("game_state"), Tok(":", ""), Tok("{", ""), Tok("}", ""), Tok("}", "")>>
Fenced(a) == <<Word("fence_json")>> \o ObjAR(a, "why") \o <<Word("fence")>>
Prose == <<Word("I"), Word("would"), Word("rest")>>

-----------------------------------------------------------------------------
(* GameStateMonitor.  A capture either fails or yields a frame; a frame is  *)
(* held as the number of pixels of each sampled region that fall in each    *)
(* colour range, and the number of edge pixels of the target panel.         *)

\* self.ui_regions as set by __init__: (x, y, width, height)
ui_regions ==
    [health_bar |-> <<50, 50, 200, 20>>,
     endurance_bar |-> <<50, 80, 200, 20>>,
     experience_bar |-> <<50, 110, 300, 15>>,
     chat_area |-> <<10, 400, 500, 200>>,
     target_info |-> <<600, 50, 200, 100>>]

Frame(g, r, bl, y, e) ==
    [ok |-> TRUE, green |-> g, red |-> r, blue |-> bl, yellow |-> y, edges |-> e]
BlankFrame == Frame(0, 0, 0, 0, 0)
\* pyautogui.screenshot raising
CaptureFailed == [ok |-> FALSE, green |-> 0, red |-> 0, blue |-> 0, yellow |-> 0, edges |-> 0]

Raised(kind) == [raised |-> kind, v |-> PyNone]
Returned(v) == [raised |-> "none", v |-> v]

\* take_screenshot: the frame, or the capture's error
TakeScreenshot(cap) == IF cap.ok THEN Returned(PyNone) ELSE Raised("CaptureError")

\* extract_bar_percentage, given the count of mask pixels of the crop
ExtractBarPercentage(filled_pixels, bar_region) ==
    LET total_pixels == bar_region[3] * bar_region[4] IN
    IF total_pixels > 0
    THEN PyMin(PyInt(100), PyMax(PyInt(0), PyFloat(filled_pixels * 100, total_pixels)))
    ELSE PyInt(0)

\* an image of rows x cols pixels in which exactly the pixels painted by
\* image[r0:r1, c0:c1] = colour fall in the colour range asked for
Image(rows, cols, painted) == [rows |-> rows, cols |-> cols, painted |-> painted]

\* the bounds numpy gives the slice lo:hi of an axis of n entries, 0 <= lo <= hi
SliceOf(lo, hi, n) == <<IF lo < n THEN lo ELSE n, IF hi < n THEN hi ELSE n>>

\* how many indices two slices share
Overlap(a, b) ==
    IF (IF a[2] < b[2] THEN a[2] ELSE b[2]) > (IF a[1] > b[1] THEN a[1] ELSE b[1])
    THEN (IF a[2] < b[2] THEN a[2] ELSE b[2]) - (IF a[1] > b[1] THEN a[1] ELSE b[1])
    ELSE 0

\* bar_image = image[y:y+height, x:x+width]: its row and column slices
CropRows(image, bar_region) ==
    SliceOf(bar_region[2], bar_region[2] + bar_region[4], image.rows)
CropCols(image, bar_region) ==
    SliceOf(bar_region[1], bar_region[1] + bar_region[3], image.cols)
CropArea(image, bar_region) ==
    (CropRows(image, bar_region)[2] - CropRows(image, bar_region)[1])
    * (CropCols(image, bar_region)[2] - CropCols(image, bar_region)[1])

\* cv2.countNonZero(mask): the pixels of the crop in the colour range
CountNonZero(image, bar_region) ==
    Overlap(CropRows(image, bar_region),
            SliceOf(image.painted[1], image.painted[2], image.rows))
    * Overlap(CropCols(image, bar_region),
              SliceOf(image.painted[3], image.painted[4], image.cols))

\* extract_bar_percentage(image, color_range, bar_region): cv2.cvtColor
\* refuses an empty crop, before total_pixels is looked at
ExtractBarPercentageFrom(image, bar_region) ==
    IF CropArea(image, bar_region) = 0
    THEN Raised("cv2.error")
    ELSE Returned(ExtractBarPercentage(CountNonZero(image, bar_region), bar_region))

\* GetHealthPercentage returning the green reading alone
GetHealthPercentageGreenOnly(cap) ==
    IF TakeScreenshot(cap).raised # "none" THEN TakeScreenshot(cap)
    ELSE Returned(ExtractBarPercentage(cap.green, ui_regions.health_bar))

\* get_health_percentage on one capture
GetHealthPercentage(cap) ==
    IF TakeScreenshot(cap).raised # "none" THEN TakeScreenshot(cap)
    ELSE LET green_health == ExtractBarPercentage(cap.green, ui_regions.health_bar)
             red_health == ExtractBarPercentage(cap.red, ui_regions.health_bar)
         IN Returned(PyMax(green_health, red_health))

\* GetEndurancePercentage giving 0 when the capture fails
GetEndurancePercentageOrZero(cap) ==
    IF TakeScreenshot(cap).raised # "none" THEN Returned(PyInt(0))
    ELSE Returned(ExtractBarPercentage(cap.blue, ui_regions.endurance_bar))

\* get_endurance_percentage on one capture
GetEndurancePercentage(cap) ==
    IF TakeScreenshot(cap).raised # "none" THEN TakeScreenshot(cap)
    ELSE Returned(ExtractBarPercentage(cap.blue, ui_regions.endurance_bar))

\* get_experience_percentage on one capture
GetExperiencePercentage(cap) ==
    IF TakeScreenshot(cap).raised # "none" THEN TakeScreenshot(cap)
    ELSE Returned(ExtractBarPercentage(cap.yellow, ui_regions.experience_bar))

\* the first of three results that raised, or the stats dict of all three
StatsOf(h, e, x, now) ==
    IF h.raised # "none" THEN h
    ELSE IF e.raised # "none" THEN e
    ELSE IF x.raised # "none" THEN x
    ELSE Returned(PyDict([health |-> h.v, endurance |-> e.v,
                          experience |-> x.v, timestamp |-> PyFloat(now, 1000)]))

\* get_player_stats: three captures in order, then the timestamp
GetPlayerStats(caps, now) ==
    StatsOf(GetHealthPercentage(caps[1]), GetEndurancePercentage(caps[2]),
            GetExperiencePercentage(caps[3]), now)

\* detect_enemy_target on one capture of the target_info region
DetectEnemyTarget(cap) ==
    IF TakeScreenshot(cap).raised # "none" THEN TakeScreenshot(cap)
    ELSE Returned(PyBool(cap.edges > 100))

\* a monitor as __init__ leaves it: no last_endurance attribute yet
FreshMonitor == [has_last |-> FALSE, last_endurance |-> PyNone, ui_regions |-> ui_regions]

\* CombatOf with the threshold test written >= 5
CombatOfAtLeast5(mon, st) ==
    IF st.raised # "none"
    THEN [raised |-> st.raised, v |-> PyNone, mon |-> mon]
    ELSE IF mon.has_last
            /\ ~NumLt(NumSub(mon.last_endurance, st.v.items["endurance"]), PyInt(5))
    THEN [raised |-> "none", v |-> PyBool(TRUE), mon |-> mon]
    ELSE [raised |-> "none", v |-> PyBool(FALSE),
          mon |-> [mon EXCEPT !.has_last = TRUE,
                              !.last_endurance = st.v.items["endurance"]]]

\* detect_combat_state once get_player_stats has given st
CombatOf(mon, st) ==
    IF st.raised # "none"
    THEN [raised |-> st.raised, v |-> PyNone, mon |-> mon]
    ELSE IF mon.has_last
            /\ NumLt(PyInt(5), NumSub(mon.last_endurance, st.v.items["endurance"]))
    THEN [raised |-> "none", v |-> PyBool(TRUE), mon |-> mon]
    ELSE [raised |-> "none", v |-> PyBool(FALSE),
          mon |-> [mon EXCEPT !.has_last = TRUE,
                              !.last_endurance = st.v.items["endurance"]]]

\* detect_combat_state: [raised, v, mon], mon the monitor afterwards
DetectCombatState(mon, caps, now) == CombatOf(mon, GetPlayerStats(caps, now))

\* one read method of a monitor, by name, on the captures it takes in order:
\* what it raised or returned, the monitor afterwards, and how many captures
\* it took (a method of three captures stops at the first that fails)
MonitorRead(op, mon, caps, now) ==
    LET r == CASE op = "get_endurance_percentage" -> GetEndurancePercentage(caps[1])
               [] op = "get_experience_percentage" -> GetExperiencePercentage(caps[1])
               [] op = "detect_enemy_target" -> DetectEnemyTarget(caps[1])
               [] op = "get_player_stats" -> GetPlayerStats(caps, now)
               [] op = "detect_combat_state" -> DetectCombatState(mon, caps, now)
    IN [raised |-> r.raised, v |-> r.v,
        mon |-> IF op = "detect_combat_state" THEN r.mon ELSE mon,
        captures |-> IF Len(caps) = 1 \/ ~caps[1].ok THEN 1
                     ELSE IF ~caps[2].ok THEN 2 ELSE 3]

-----------------------------------------------------------------------------
(* calibrate_ui_regions.  Its arithmetic is Python's: resolution / 1920 is   *)
(* a double, x * scale is a double, int() truncates.                         *)

\* Python floats where rounding decides an integer result.  A positive double
\* is its 53-bit significand in three limbs (17, 18 and 18 bits, hi first) and
\* the exponent e of its leading bit: the value is
\* (hi * 2^36 + mid * 2^18 + lo) * 2^(e - 52).
Limb == 262144

RECURSIVE Pow2(_)
Pow2(k) == IF k <= 0 THEN 1 ELSE 2 * Pow2(k - 1)

\* the number of binary digits of a natural number
BitLength(k) == CHOOSE n \in 0..31 : (n = 0 \/ k >= Pow2(n - 1)) /\ (n = 31 \/ k < Pow2(n))

\* the e with 2^e <= a / b < 2^(e+1), for positive ints a and b
Exponent(a, b) ==
    CHOOSE e \in -14..6 :
        /\ a * Pow2(-e) >= b * Pow2(e)
        /\ a * Pow2(-e) < 2 * b * Pow2(e)

\* the significand after rounding up by one unit in the last place
NextUp(hi, mid, lo, e) ==
    IF lo + 1 < Limb THEN [hi |-> hi, mid |-> mid, lo |-> lo + 1, e |-> e]
    ELSE IF mid + 1 < Limb THEN [hi |-> hi, mid |-> mid + 1, lo |-> 0, e |-> e]
    ELSE IF hi + 1 < 131072 THEN [hi |-> hi + 1, mid |-> 0, lo |-> 0, e |-> e]
    ELSE [hi |-> 65536, mid |-> 0, lo |-> 0, e |-> e + 1]

\* round half to even on what is left (rem / den of a unit in the last place)
RoundQuotient(hi, mid, lo, rem, den, e) ==
    IF 2 * rem > den \/ (2 * rem = den /\ lo % 2 = 1)
    THEN NextUp(hi, mid, lo, e)
    ELSE [hi |-> hi, mid |-> mid, lo |-> lo, e |-> e]

\* long division of an / bn, 1 <= an / bn < 2, limb by limb
DivideFrom(r2, hi, mid, bn, e) ==
    RoundQuotient(hi, mid, (r2 * Limb) \div bn, (r2 * Limb) % bn, bn, e)
DivideMid(r1, hi, bn, e) ==
    DivideFrom((r1 * Limb) % bn, hi, (r1 * Limb) \div bn, bn, e)
DivideNormal(an, bn, e) ==
    DivideMid((an * 65536) % bn, (an * 65536) \div bn, bn, e)

\* a / b on two positive ints: the correctly rounded double
FloatDiv(a, b) ==
    DivideNormal(a * Pow2(-Exponent(a, b)), b * Pow2(Exponent(a, b)), Exponent(a, b))

\* int(k * f) given the exact product p1 * 2^36 + m2 * 2^18 + m3 of k and f's
\* significand: the product is rounded to 53 bits (d bits too many, half to
\* even) and then truncated at the binary point, s bits above the product's
\* last
TruncRounded(p1, m2, m3, d, s) ==
    IF /\ d > 0
       /\ \/ m3 % Pow2(d) > Pow2(d - 1)
          \/ m3 % Pow2(d) = Pow2(d - 1) /\ (m3 \div Pow2(d)) % 2 = 1
       /\ m3 \div Pow2(d) = Pow2(18 - d) - 1
       /\ m2 = Limb - 1
       /\ p1 % Pow2(s - 36) = Pow2(s - 36) - 1
    THEN p1 \div Pow2(s - 36) + 1
    ELSE p1 \div Pow2(s - 36)

MulTop(p2, m3, k, f) ==
    TruncRounded(k * f.hi + p2 \div Limb, p2 % Limb, m3,
                 BitLength(k * f.hi + p2 \div Limb) - 17, 52 - f.e)

\* int(k * f) for a natural number k and a double f below 2^16
FloatMulToInt(k, f) ==
    IF k = 0 THEN 0
    ELSE MulTop(k * f.mid + (k * f.lo) \div Limb, (k * f.lo) % Limb, k, f)

\* int(value * (size / reference))
ScaleInt(value, size, reference) == FloatMulToInt(value, FloatDiv(size, reference))

\* one region rescaled: int(x * scale_x), int(y * scale_y), ...
CalibratedRegion(region, resolution) ==
    <<ScaleInt(region[1], resolution[1], 1920), ScaleInt(region[2], resolution[2], 1080),
      ScaleInt(region[3], resolution[1], 1920), ScaleInt(region[4], resolution[2], 1080)>>

\* calibrate_ui_regions(resolution): the monitor afterwards
CalibrateUiRegions(mon, resolution) ==
    [mon EXCEPT !.ui_regions =
        [name \in DOMAIN mon.ui_regions |-> CalibratedRegion(mon.ui_regions[name], resolution)]]

-----------------------------------------------------------------------------
(* MovementController and AttackController: the input events each routine   *)
(* issues, in order.  A sleep is an event too.                               *)

Ev(e, key, ms) == [e |-> e, key |-> key, ms |-> ms]
KeyDown(k) == Ev("keyDown", k, 0)
KeyUp(k) == Ev("keyUp", k, 0)
Press(k) == Ev("press", k, 0)
Sleep(ms) == Ev("sleep", "", ms)

\* the time a sequence of events takes: its sleeps
RECURSIVE SleepTotal(_)
SleepTotal(evs) == IF evs = <<>> THEN 0 ELSE Head(evs).ms + SleepTotal(Tail(evs))

\* MovementController.keys
keys ==
    [forward |-> "w", backward |-> "s", strafe_left |-> "a", strafe_right |-> "d",
     turn_left |-> "q", turn_right |-> "e", jump |-> "space", sprint |-> "r", fly |-> "f"]

MoveForward(ms) == <<KeyDown(keys.forward), Sleep(ms), KeyUp(keys.forward)>>
MoveBackward(ms) == <<KeyDown(keys.backward), Sleep(ms), KeyUp(keys.backward)>>
StrafeLeft(ms) == <<KeyDown(keys.strafe_left), Sleep(ms), KeyUp(keys.strafe_left)>>
StrafeRight(ms) == <<KeyDown(keys.strafe_right), Sleep(ms), KeyUp(keys.strafe_right)>>

\* TurnLeft at 90 degrees a second
TurnLeftAt90(angle) ==
    <<KeyDown(keys.turn_left), Sleep((angle * 1000) \div 90), KeyUp(keys.turn_left)>>

\* one second of turning is 180 degrees
TurnLeft(angle) ==
    <<KeyDown(keys.turn_left), Sleep((angle * 1000) \div 180), KeyUp(keys.turn_left)>>

TurnRight(angle) ==
    <<KeyDown(keys.turn_right), Sleep((angle * 1000) \div 180), KeyUp(keys.turn_right)>>

RECURSIVE Repeat(_, _)
Repeat(seq, k) == IF k <= 0 THEN <<>> ELSE seq \o Repeat(seq, k - 1)

\* circle_strafe_target(radius, duration, clockwise), duration in ms
CircleStrafeTarget(radius, duration, clockwise) ==
    LET steps == (duration * 10) \div 1000
        step_duration == duration \div steps
        turn_angle == 360 \div steps
        one == MoveForward((step_duration * 3) \div 10)
               \o (IF clockwise
                   THEN StrafeRight((step_duration * 4) \div 10) \o TurnRight(turn_angle)
                   ELSE StrafeLeft((step_duration * 4) \div 10) \o TurnLeft(turn_angle))
               \o <<Sleep((step_duration * 3) \div 10)>>
    IN Repeat(one, steps)

RECURSIVE AtanTerms(_, _, _, _)
\* the arctangent series of dy/dx, 0 <= dy < dx, from its k-th term on, in
\* microradians; p is (dy/dx)^(2k+1)
AtanTerms(p, k, dy, dx) ==
    IF p = 0 THEN 0
    ELSE p \div (2 * k + 1) - AtanTerms((p * dy * dy) \div (dx * dx), k + 1, dy, dx)

\* math.atan2(dy, dx) * 180 / math.pi in millidegrees, to within 2
Atan2(dy, dx) ==
    LET a == IF dy < 0 THEN -dy ELSE dy
        b == IF dx < 0 THEN -dx ELSE dx
        octant(lo, hi) == IF lo = hi THEN 45000
                          ELSE (AtanTerms((1000000 * lo) \div hi, 0, lo, hi) * 1000) \div 17453
        first == IF a = 0 THEN 0
                 ELSE IF a <= b THEN octant(a, b) ELSE 90000 - octant(b, a)
        upper == IF dx >= 0 THEN first ELSE 180000 - first
    IN IF dy >= 0 THEN upper ELSE -upper

\* min(math.sqrt(d2) / 20, 2.0) in ms, rounded down
MoveTime(d2) ==
    IF d2 >= 1600 THEN 2000
    ELSE CHOOSE ms \in 0..2000 : ms * ms <= 2500 * d2 /\ 2500 * d2 < (ms + 1) * (ms + 1)

\* NavigateToWaypoint without the cap of 45 degrees on a turn
NavigateToWaypointUncapped(x, y, current_x, current_y) ==
    LET dx == x - current_x
        dy == y - current_y
        angle == Atan2(dy, dx)
    IN IF dx * dx + dy * dy < 25 THEN [ret |-> TRUE, events |-> <<>>]
       ELSE [ret |-> FALSE,
             events |->
                (IF angle > 10000
                 THEN <<KeyDown(keys.turn_right), Sleep(angle \div 180),
                        KeyUp(keys.turn_right)>>
                 ELSE IF angle < -10000
                 THEN <<KeyDown(keys.turn_left), Sleep((-angle) \div 180),
                        KeyUp(keys.turn_left)>>
                 ELSE <<>>)
                \o MoveForward(MoveTime(dx * dx + dy * dy))]

\* navigate_to_waypoint(x, y, current_x, current_y) on whole coordinates; the
\* angle is in millidegrees, so that a turn by it takes angle / 180 ms
NavigateToWaypoint(x, y, current_x, current_y) ==
    LET dx == x - current_x
        dy == y - current_y
        angle == Atan2(dy, dx)
        min45(v) == IF v < 45000 THEN v ELSE 45000
    IN IF dx * dx + dy * dy < 25 THEN [ret |-> TRUE, events |-> <<>>]
       ELSE [ret |-> FALSE,
             events |->
                (IF angle > 10000
                 THEN <<KeyDown(keys.turn_right), Sleep(min45(angle) \div 180),
                        KeyUp(keys.turn_right)>>
                 ELSE IF angle < -10000
                 THEN <<KeyDown(keys.turn_left), Sleep(min45(-angle) \div 180),
                        KeyUp(keys.turn_left)>>
                 ELSE <<>>)
                \o MoveForward(MoveTime(dx * dx + dy * dy))]

\* AttackController.hotkeys
hotkeys == [k \in 1..9 |-> CASE k = 1 -> "1" [] k = 2 -> "2" [] k = 3 -> "3"
                             [] k = 4 -> "4" [] k = 5 -> "5" [] k = 6 -> "6"
                             [] k = 7 -> "7" [] k = 8 -> "8" [] k = 9 -> "9"]

\* AttackController.attack_chains as set by __init__: (ability, wait in ms)
attack_chains ==
    [basic_combo |-> << <<1, 1200>>, <<2, 1500>>, <<3, 2000>> >>,
     power_combo |-> << <<4, 2000>>, <<5, 2500>>, <<6, 3000>> >>,
     aoe_combo |-> << <<7, 2500>>, <<8, 3000>>, <<9, 1000>> >>,
     quick_strike |-> << <<1, 800>>, <<2, 800>> >>,
     heavy_attack |-> << <<6, 3500>> >>,
     defensive |-> << <<5, 2000>>, <<3, 1500>> >>,
     ranged_combo |-> << <<2, 1000>>, <<4, 1500>>, <<7, 2000>> >>,
     melee_combo |-> << <<1, 1200>>, <<3, 1800>>, <<5, 2200>> >>]

\* AttackController.ability_timings, in ms
ability_timings ==
    [k \in 1..9 |-> CASE k = 1 -> 1200 [] k = 2 -> 1000 [] k = 3 -> 1800
                       [] k = 4 -> 1500 [] k = 5 -> 2200 [] k = 6 -> 3500
                       [] k = 7 -> 2500 [] k = 8 -> 3000 [] k = 9 -> 1000]

\* UseAbility with wait_for_animation left at its default, True
UseAbilityAnimated(ability_number) ==
    IF ability_number \notin DOMAIN hotkeys
    THEN [raised |-> "ValueError", events |-> <<>>]
    ELSE [raised |-> "none",
          events |-> <<Press(hotkeys[ability_number]), Sleep(ability_timings[ability_number])>>]

\* use_ability(ability_number, wait_for_animation=False)
UseAbility(ability_number) ==
    IF ability_number \notin DOMAIN hotkeys
    THEN [raised |-> "ValueError", events |-> <<>>]
    ELSE [raised |-> "none", events |-> <<Press(hotkeys[ability_number])>>]

RECURSIVE RunChain(_, _)
\* the loop of execute_attack_chain over the steps from the i-th on
RunChain(chain, i) ==
    IF i > Len(chain) THEN [raised |-> "none", events |-> <<>>]
    ELSE LET u == UseAbility(chain[i][1]) IN
         IF u.raised # "none" THEN u
         ELSE LET rest == RunChain(chain, i + 1) IN
              [raised |-> rest.raised,
               events |-> u.events \o <<Sleep(chain[i][2])>> \o rest.events]

\* execute_attack_chain(chain_name), interrupt_on_low_health left False
ExecuteAttackChain(chain_name) ==
    IF chain_name \notin DOMAIN attack_chains
    THEN [raised |-> "ValueError", events |-> <<>>]
    ELSE RunChain(attack_chains[chain_name], 1)

RECURSIVE RunChainWatchedBelow10(_, _, _)
\* RunChainWatched with the critical threshold at 10
RunChainWatchedBelow10(chain, i, caps) ==
    IF i > Len(chain) THEN [raised |-> "none", events |-> <<>>]
    ELSE LET h == GetHealthPercentage(caps[i])
             u == UseAbility(chain[i][1])
             rest == RunChainWatchedBelow10(chain, i + 1, caps)
         IN IF h.raised # "none"
            THEN [raised |-> h.raised, events |-> <<Ev("screenshot", "", 0)>>]
            ELSE IF NumLt(h.v, PyInt(10))
            THEN [raised |-> "none", events |-> <<Ev("screenshot", "", 0)>>]
            ELSE IF u.raised # "none"
            THEN [raised |-> u.raised, events |-> <<Ev("screenshot", "", 0)>>]
            ELSE [raised |-> rest.raised,
                  events |-> <<Ev("screenshot", "", 0)>> \o u.events
                             \o <<Sleep(chain[i][2])>> \o rest.events]

RECURSIVE RunChainWatched(_, _, _)
\* the loop of execute_attack_chain with interrupt_on_low_health=True over the
\* steps from the i-th on: a new monitor reads the health before each step,
\* from the capture caps[i]; the capture is an event of kind screenshot
RunChainWatched(chain, i, caps) ==
    IF i > Len(chain) THEN [raised |-> "none", events |-> <<>>]
    ELSE LET h == GetHealthPercentage(caps[i])
             u == UseAbility(chain[i][1])
             rest == RunChainWatched(chain, i + 1, caps)
         IN IF h.raised # "none"
            THEN [raised |-> h.raised, events |-> <<Ev("screenshot", "", 0)>>]
            ELSE IF NumLt(h.v, PyInt(20))
            THEN [raised |-> "none", events |-> <<Ev("screenshot", "", 0)>>]
            ELSE IF u.raised # "none"
            THEN [raised |-> u.raised, events |-> <<Ev("screenshot", "", 0)>>]
            ELSE [raised |-> rest.raised,
                  events |-> <<Ev("screenshot", "", 0)>> \o u.events
                             \o <<Sleep(chain[i][2])>> \o rest.events]

\* ExecuteAttackChainOn with an unknown name falling back to basic_combo
ExecuteAttackChainOnFallback(ctl, chain_name, interrupt_on_low_health, caps) ==
    IF interrupt_on_low_health
    THEN RunChainWatched(IF chain_name \in DOMAIN ctl.attack_chains
                         THEN ctl.attack_chains[chain_name]
                         ELSE ctl.attack_chains["basic_combo"], 1, caps)
    ELSE RunChain(IF chain_name \in DOMAIN ctl.attack_chains
                  THEN ctl.attack_chains[chain_name]
                  ELSE ctl.attack_chains["basic_combo"], 1)

\* execute_attack_chain(chain_name, interrupt_on_low_health) on a controller
\* whose registry may have been added to
ExecuteAttackChainOn(ctl, chain_name, interrupt_on_low_health, caps) ==
    IF chain_name \notin DOMAIN ctl.attack_chains
    THEN [raised |-> "ValueError", events |-> <<>>]
    ELSE IF interrupt_on_low_health
    THEN RunChainWatched(ctl.attack_chains[chain_name], 1, caps)
    ELSE RunChain(ctl.attack_chains[chain_name], 1)

\* AddCustomChain building the registry anew from the chains set at
\* construction
AddCustomChainReset(ctl, name, chain) ==
    [ctl EXCEPT !.attack_chains = Put(attack_chains, name, chain)]

\* add_custom_chain(name, chain)
AddCustomChain(ctl, name, chain) ==
    [ctl EXCEPT !.attack_chains = Put(ctl.attack_chains, name, chain)]

\* get_available_chains(): the names, as a set
GetAvailableChains(ctl) == DOMAIN ctl.attack_chains

-----------------------------------------------------------------------------
(* GameStateMonitor: the health reads, which wait between samples *)

\* what get_health_percentage does on one capture, in order
GetHealthPercentageSteps(cap) ==
    IF TakeScreenshot(cap).raised # "none"
    THEN <<"take_screenshot">>
    ELSE <<"take_screenshot", "extract_bar_percentage health_green",
           "extract_bar_percentage health_red">>

WaitResult(raised, ret, samples, sleeps, elapsed) ==
    [raised |-> raised, ret |-> ret, samples |-> samples, events |-> sleeps,
     elapsed |-> elapsed]

\* WaitLoop taking its first sample before it looks at the time
WaitLoopSampleFirst(elapsed, caps, target_percentage, timeout, cost, samples) ==
    IF samples # <<>> /\ ~(elapsed < timeout)
    THEN "timeout"
    ELSE IF GetHealthPercentage(caps[Len(samples) + 1]).raised # "none"
    THEN "raise"
    ELSE IF ~NumLt(GetHealthPercentage(caps[Len(samples) + 1]).v, target_percentage)
    THEN "recovered"
    ELSE "sleep"

\* WaitLoop with the target test written >
WaitLoopAbove(elapsed, caps, target_percentage, timeout, cost, samples) ==
    IF ~(elapsed < timeout)
    THEN "timeout"
    ELSE IF GetHealthPercentage(caps[Len(samples) + 1]).raised # "none"
    THEN "raise"
    ELSE IF NumLt(target_percentage, GetHealthPercentage(caps[Len(samples) + 1]).v)
    THEN "recovered"
    ELSE "sleep"

\* one turn of the loop of wait_for_health_recovery, elapsed ms after
\* start_time: what the turn ends in
WaitLoop(elapsed, caps, target_percentage, timeout, cost, samples) ==
    IF ~(elapsed < timeout)
    THEN "timeout"
    ELSE IF GetHealthPercentage(caps[Len(samples) + 1]).raised # "none"
    THEN "raise"
    ELSE IF ~NumLt(GetHealthPercentage(caps[Len(samples) + 1]).v, target_percentage)
    THEN "recovered"
    ELSE "sleep"

RECURSIVE WaitFrom(_, _, _, _, _, _)
\* the loop of wait_for_health_recovery from one turn on; a capture takes
\* cost ms, the samples so far are samples, one sleep of 1 s follows each
WaitFrom(elapsed, caps, target_percentage, timeout, cost, samples) ==
    CASE WaitLoop(elapsed, caps, target_percentage, timeout, cost, samples) = "timeout" ->
           WaitResult("none", FALSE, samples, [i \in 1..Len(samples) |-> Sleep(1000)],
                      elapsed)
      [] WaitLoop(elapsed, caps, target_percentage, timeout, cost, samples) = "raise" ->
           WaitResult(GetHealthPercentage(caps[Len(samples) + 1]).raised, FALSE, samples,
                      [i \in 1..Len(samples) |-> Sleep(1000)], elapsed + cost)
      [] WaitLoop(elapsed, caps, target_percentage, timeout, cost, samples) = "recovered" ->
           WaitResult("none", TRUE,
                      Append(samples, GetHealthPercentage(caps[Len(samples) + 1]).v),
                      [i \in 1..Len(samples) |-> Sleep(1000)], elapsed + cost)
      [] OTHER ->
           WaitFrom(elapsed + cost + 1000, caps, target_percentage, timeout, cost,
                    Append(samples, GetHealthPercentage(caps[Len(samples) + 1]).v))

\* wait_for_health_recovery(target_percentage, timeout), timeout in ms
WaitForHealthRecovery(caps, target_percentage, timeout, cost) ==
    WaitFrom(0, caps, target_percentage, timeout, cost, <<>>)

-----------------------------------------------------------------------------
(* NovaGameplayAI *)

Scenarios == {"recovery", "combat", "exploration"}

\* the "Available Actions" each entry of self.decision_prompts lists
decision_prompts ==
    [combat |-> {"attack", "power_combo", "aoe_combo", "retreat", "rest",
                 "move_forward", "circle_strafe"},
     exploration |-> {"move_forward", "turn_left", "turn_right", "patrol", "rest",
                      "search_enemies"},
     recovery |-> {"rest", "retreat", "find_cover", "wait"}]

\* AnalyzeGameState with the thresholds written <= 30 and <= 20
AnalyzeGameStateInclusive(st) ==
    IF ~NumLt(PyInt(30), Get(st, "health", PyInt(100)))
       \/ ~NumLt(PyInt(20), Get(st, "endurance", PyInt(100)))
    THEN "recovery"
    ELSE IF Truthy(Get(st, "in_combat", PyBool(FALSE)))
            \/ Truthy(Get(st, "enemy_targeted", PyBool(FALSE)))
    THEN "combat"
    ELSE "exploration"

\* analyze_game_state(stats)
AnalyzeGameState(st) ==
    LET health == Get(st, "health", PyInt(100))
        endurance == Get(st, "endurance", PyInt(100))
        in_combat == Get(st, "in_combat", PyBool(FALSE))
        enemy_targeted == Get(st, "enemy_targeted", PyBool(FALSE))
    IN IF NumLt(health, PyInt(30)) \/ NumLt(endurance, PyInt(20)) THEN "recovery"
       ELSE IF Truthy(in_combat) \/ Truthy(enemy_targeted) THEN "combat"
       ELSE "exploration"

\* what the endpoint does with a request: the call fails, the response
\* envelope lacks output.message.content[0].text, or it carries a reply text
Env(call, text) == [call |-> call, text |-> text]

\* the reason of the default decision for each failure of the call
ApiErrorReason(call) ==
    IF call = "error" THEN "API error: invoke_model failed"
    ELSE "API error: malformed response"

\* the default decision
DefaultDecision(reason) == PyDict([action |-> PyStr("rest"), reason |-> PyStr(reason)])

\* ReplyOf without the except clause for JSONDecodeError
ReplyOfUnchecked(parsed) == parsed.v

\* call_nova_with_image once json.loads has given parsed
ReplyOf(parsed) ==
    IF parsed.ok THEN parsed.v ELSE DefaultDecision("Failed to parse AI response")

\* call_nova_with_image(prompt, image_data): the value returned and the
\* requests issued through bedrock_client.invoke_model
CallNovaWithImage(prompt, image_data, env) ==
    [raised |-> "none",
     v |-> IF env.call # "ok" THEN DefaultDecision(ApiErrorReason(env.call))
           ELSE ReplyOf(JsonLoads(env.text)),
     requests |-> <<[prompt |-> prompt, image |-> Truthy(image_data)]>>]

\* get_screenshot_data: a failed capture or encoding is caught and gives None
GetScreenshotData(cap) ==
    IF TakeScreenshot(cap).raised # "none" THEN PyNone ELSE PyStr("png_base64")

\* AddMetadata setting each key only where the reply has none
AddMetadataKeepReply(mon, nova, scenario, stats2, now) ==
    IF nova.v.ty # "dict"
    THEN [raised |-> "TypeError", v |-> PyNone, mon |-> mon, requests |-> nova.requests]
    ELSE [raised |-> "none",
          v |-> PyDict(Put(Put(Put(nova.v.items, "scenario",
                                   Get(nova.v, "scenario", PyStr(scenario))),
                               "game_state", Get(nova.v, "game_state", stats2)),
                           "timestamp", Get(nova.v, "timestamp", PyFloat(now, 1000)))),
          mon |-> mon, requests |-> nova.requests]

\* the "Add metadata" statements: decision[key] = value needs a dict
AddMetadata(mon, nova, scenario, stats2, now) ==
    IF nova.v.ty # "dict"
    THEN [raised |-> "TypeError", v |-> PyNone, mon |-> mon, requests |-> nova.requests]
    ELSE [raised |-> "none",
          v |-> PyDict(Put(Put(Put(nova.v.items, "scenario", PyStr(scenario)),
                               "game_state", stats2),
                           "timestamp", PyFloat(now, 1000))),
          mon |-> mon, requests |-> nova.requests]

\* make_gameplay_decision from the scenario on
DecideIn(mon, scenario, stats2, shot, env, now) ==
    AddMetadata(mon,
                CallNovaWithImage([scenario |-> scenario, game_state |-> stats2],
                                  GetScreenshotData(shot), env),
                scenario, stats2, now)

\* make_gameplay_decision once the three monitor calls have given st, combat
\* and target
DecideOn(mon, st, combat, target, shot, env, now) ==
    IF st.raised # "none"
    THEN [raised |-> st.raised, v |-> PyNone, mon |-> mon, requests |-> <<>>]
    ELSE IF combat.raised # "none"
    THEN [raised |-> combat.raised, v |-> PyNone, mon |-> mon, requests |-> <<>>]
    ELSE IF target.raised # "none"
    THEN [raised |-> target.raised, v |-> PyNone, mon |-> combat.mon, requests |-> <<>>]
    ELSE DecideIn(combat.mon,
                  AnalyzeGameState(PyDict(Put(Put(st.v.items, "in_combat", combat.v),
                                              "enemy_targeted", target.v))),
                  PyDict(Put(Put(st.v.items, "in_combat", combat.v),
                             "enemy_targeted", target.v)),
                  shot, env, now)

\* make_gameplay_decision on self.game_monitor = mon; caps are the captures it
\* takes in order: 1-3 get_player_stats, 4-6 detect_combat_state, 7
\* detect_enemy_target, 8 get_screenshot_data
MakeGameplayDecision(mon, caps, env, now) ==
    DecideOn(mon, GetPlayerStats(SubSeq(caps, 1, 3), now),
             DetectCombatState(mon, SubSeq(caps, 4, 6), now),
             DetectEnemyTarget(caps[7]), caps[8], env, now)

\* Branch with the final else resting instead of returning False
BranchDefaultRest(action) ==
    IF action = PyStr("move_forward")
    THEN [kind |-> "events", raised |-> "none", ev |-> MoveForward(1500)]
    ELSE [kind |-> "events", raised |-> "none", ev |-> <<Sleep(3000)>>]

\* the branch of execute_decision an action takes: the events of its routine,
\* a routine the controllers do not define, or no branch at all
Branch(action) ==
    LET ev(seq) == [kind |-> "events", raised |-> "none", ev |-> seq]
        chain(name) == [kind |-> "events", raised |-> ExecuteAttackChain(name).raised,
                        ev |-> ExecuteAttackChain(name).events]
    IN CASE action = PyStr("attack") -> chain("basic_combo")
         [] action = PyStr("power_combo") -> chain("power_combo")
         [] action = PyStr("aoe_combo") -> chain("aoe_combo")
         [] action = PyStr("retreat") -> ev(MoveBackward(2000))
         [] action = PyStr("rest") -> ev(<<Sleep(3000)>>)
         [] action = PyStr("move_forward") -> ev(MoveForward(1500))
         [] action = PyStr("circle_strafe") -> ev(CircleStrafeTarget(8, 2000, TRUE))
         [] action = PyStr("turn_left") -> ev(TurnLeft(45))
         [] action = PyStr("turn_right") -> ev(TurnRight(45))
         [] action = PyStr("patrol") ->
              [kind |-> "events", raised |-> "AttributeError", ev |-> <<>>]
         [] action = PyStr("search_enemies") ->
              [kind |-> "events", raised |-> "AttributeError", ev |-> <<>>]
         [] action = PyStr("find_cover") -> ev(MoveBackward(3000))
         [] action = PyStr("wait") -> ev(<<Sleep(2000)>>)
         [] OTHER -> [kind |-> "unknown", raised |-> "none", ev |-> <<>>]

\* ExecuteDecision raising ValueError for an action it has no branch for
ExecuteDecisionRaising(dec, failAt) ==
    IF dec.ty # "dict"
    THEN [raised |-> "AttributeError", ret |-> FALSE, events |-> <<>>]
    ELSE LET br == Branch(Get(dec, "action", PyStr("rest"))) IN
         IF br.kind = "unknown"
         THEN [raised |-> "ValueError", ret |-> FALSE, events |-> <<>>]
         ELSE IF failAt \in 1..Len(br.ev)
         THEN [raised |-> "none", ret |-> FALSE, events |-> SubSeq(br.ev, 1, failAt - 1)]
         ELSE IF br.raised # "none"
         THEN [raised |-> "none", ret |-> FALSE, events |-> br.ev]
         ELSE [raised |-> "none", ret |-> TRUE, events |-> br.ev]

\* execute_decision(decision); failAt > 0 makes the failAt-th event of the
\* routine, an input call, raise (pyautogui's fail-safe, a lost display)
ExecuteDecision(dec, failAt) ==
    IF dec.ty # "dict"
    THEN [raised |-> "AttributeError", ret |-> FALSE, events |-> <<>>]
    ELSE LET br == Branch(Get(dec, "action", PyStr("rest"))) IN
         IF br.kind = "unknown"
         THEN [raised |-> "none", ret |-> FALSE, events |-> <<>>]
         ELSE IF failAt \in 1..Len(br.ev)
         THEN [raised |-> "none", ret |-> FALSE, events |-> SubSeq(br.ev, 1, failAt - 1)]
         ELSE IF br.raised # "none"
         THEN [raised |-> "none", ret |-> FALSE, events |-> br.ev]
         ELSE [raised |-> "none", ret |-> TRUE, events |-> br.ev]

\* where an input failure may strike a decision's routine: 0 is nowhere, i is
\* at its i-th event, which is then an input call and not a sleep
FailPoints(dec) ==
    IF dec.ty # "dict" THEN {0}
    ELSE LET ev == Branch(Get(dec, "action", PyStr("rest"))).ev IN
         {0} \cup {i \in 1..MaxFailAt : i <= Len(ev) /\ ev[i].e # "sleep"}

-----------------------------------------------------------------------------
(* Inputs: what the screen shows and what the endpoint answers *)

MonitorIds == {"bot", "ai"}

\* captures by what they show.  health: green and red pixels of the 200 x 20
\* bar; endurance: blue pixels of the 200 x 20 bar; drain: the endurance
\* readings of a monitor watched over several calls; experience: yellow
\* pixels of the 300 x 15 bar; target: edge pixels of the target panel
Frames ==
    [health |-> {Frame(g, 0, 0, 0, 0) : g \in {0, 800, 1199, 1200, 3000, 4000}}
                \cup {Frame(0, 2400, 0, 0, 0), Frame(1000, 3200, 0, 0, 0)},
     endurance |-> {Frame(0, 0, bl, 0, 0) : bl \in {799, 800, 3200, 4000}},
     drain |-> {Frame(0, 0, bl, 0, 0) : bl \in {2760, 2800, 2999, 3000, 3200, 4000}},
     experience |-> {Frame(0, 0, 0, 2250, 0)},
     target |-> {Frame(0, 0, 0, 0, e) : e \in {100, 101}}]

\* the three captures of get_player_stats, any one of which may fail
FailedTriples ==
    {<<CaptureFailed, BlankFrame, BlankFrame>>,
     <<BlankFrame, CaptureFailed, BlankFrame>>,
     <<BlankFrame, BlankFrame, CaptureFailed>>}
StatsCaptures ==
    {<<h, e, x>> : h \in Frames.health, e \in Frames.endurance, x \in Frames.experience}
    \cup FailedTriples
CombatCaptures(frames) ==
    {<<BlankFrame, e, BlankFrame>> : e \in frames} \cup FailedTriples

ReplyTexts ==
    {ObjAR(a, "why") : a \in {"attack", "rest", "turn_left", "find_cover", "dance"}}
    \cup {ObjA("wait"), ObjR("no action"), ObjMeta("retreat"), Fenced("rest"), Prose,
          <<Tok("{", ""), Tok("}", "")>>, <<Tok("[", ""), Tok("]", "")>>,
          <<Tok("[", ""), JStr("rest"), Tok(",", ""), JStr("why"), Tok("]", "")>>,
          <<JStr("rest")>>, <<Tok("null", "")>>, <<Tok("num", "")>>, <<>>,
          ObjA("rest") \o <<Word("ok")>>,
          <<Tok("{", ""), JStr("action"), Tok(":", ""), Tok("null", ""), Tok("}", "")>>}
Envs == {Env("error", <<>>), Env("malformed", <<>>)} \cup {Env("ok", t) : t \in ReplyTexts}

\* stats records for analyze_game_state called on its own
NumberGrid ==
    {PyInt(0), PyInt(20), PyInt(29), PyInt(30), PyInt(80), PyInt(100),
     PyFloat(799, 40), PyFloat(1199, 40), PyFloat(1200, 40), PyFloat(800, 40)}
StatsGrid ==
    {PyDict([health |-> h, endurance |-> e, in_combat |-> PyBool(c),
             enemy_targeted |-> PyBool(t)]) :
        h \in NumberGrid, e \in NumberGrid, c \in BOOLEAN, t \in BOOLEAN}
    \cup {PyDict(EmptyItems), PyDict([health |-> PyInt(20)]),
          PyDict([in_combat |-> PyBool(TRUE)])}

\* decisions for execute_decision called on its own
KnownActions ==
    {"attack", "power_combo", "aoe_combo", "retreat", "rest", "move_forward",
     "circle_strafe", "turn_left", "turn_right", "patrol", "search_enemies",
     "find_cover", "wait"}
ExecDecisions ==
    {PyDict([action |-> PyStr(a), reason |-> PyStr("why")]) :
        a \in KnownActions \cup {"dance", "Attack", "", "rest "}}
    \cup {PyDict([action |-> PyNone]), PyDict([action |-> PyInt(1)]),
          PyDict([reason |-> PyStr("no action")])}

-----------------------------------------------------------------------------
(* Initial values *)

NoCall ==
    [op |-> "none", arg |-> PyNone, env |-> Env("ok", <<>>), raised |-> "none",
     v |-> PyNone, ret |-> FALSE, requests |-> <<>>, events |-> <<>>, failAt |-> 0]

Seeded(e) == [FreshMonitor EXCEPT !.has_last = TRUE, !.last_endurance = e]

LoopIdle ==
    /\ pc = "idle"
    /\ running = FALSE
    /\ action_count = 0
    /\ stats = PyNone
    /\ decision = PyNone
    /\ execution_success = FALSE
    /\ action_history = <<>>
    /\ session_file = [written |-> FALSE, entries |-> <<>>]
    /\ trace = <<>>
    /\ cleanups = 0
    /\ stop_cause = "none"

-----------------------------------------------------------------------------
(* GameStateMonitor called directly: detect_combat_state on either monitor  *)

RECURSIVE SumLen(_, _)
SumLen(f, ids) ==
    IF ids = {} THEN 0
    ELSE LET m == CHOOSE x \in ids : TRUE IN Len(f[m]) + SumLen(f, ids \ {m})

\* DetectCombatStateCall with last_endurance held by the class, for every
\* monitor at once
DetectCombatStateCallShared(m) ==
    /\ SumLen(calls, MonitorIds) < MaxCalls
    /\ \E caps \in CombatCaptures(Frames.drain) :
         LET r == DetectCombatState(monitors[m], caps, clock)
             e == GetEndurancePercentage(caps[2])
         IN /\ monitors' = [o \in MonitorIds |-> r.mon]
            /\ calls' = [calls EXCEPT ![m] =
                           Append(@, [raised |-> r.raised, ret |-> r.v.b,
                                      endurance |-> e.v])]
    /\ UNCHANGED <<attacks, last, events, clock>>
    /\ UNCHANGED loopVars

DetectCombatStateCall(m) ==
    /\ SumLen(calls, MonitorIds) < MaxCalls
    /\ \E caps \in CombatCaptures(Frames.drain) :
         LET r == DetectCombatState(monitors[m], caps, clock)
             e == GetEndurancePercentage(caps[2])
         IN /\ monitors' = [monitors EXCEPT ![m] = r.mon]
            /\ calls' = [calls EXCEPT ![m] =
                           Append(@, [raised |-> r.raised, ret |-> r.v.b,
                                      endurance |-> e.v])]
    /\ UNCHANGED <<attacks, last, events, clock>>
    /\ UNCHANGED loopVars

InitMonitor ==
    /\ monitors = [m \in MonitorIds |-> FreshMonitor]
    /\ calls = [m \in MonitorIds |-> <<>>]
    /\ last = NoCall
    /\ events = <<>>
    /\ clock = 0
    /\ attacks = [hotkeys |-> hotkeys, attack_chains |-> attack_chains,
                  ability_timings |-> ability_timings]
    /\ LoopIdle

NextMonitor == \E m \in MonitorIds : DetectCombatStateCall(m)

SpecMonitor == InitMonitor /\ [][NextMonitor]_vars

-----------------------------------------------------------------------------
(* GameStateMonitor called directly: calibrate_ui_regions, and              *)
(* extract_bar_percentage on images and regions of the caller's choice      *)

\* resolutions: (width, height) given to calibrate_ui_regions.  images: of 50
\* rows by 200 columns as the tests build them, and screens of 1080 by 1920,
\* with the bar colour painted on a rectangle.  bar_regions: (x, y, width,
\* height) inside the image, across its right border, of no area, and beyond
\* the border
RegionArgs ==
    [resolutions |-> {<<1920, 1080>>, <<960, 540>>, <<1280, 720>>, <<704, 480>>,
                      <<3840, 2160>>, <<64, 36>>},
     images |-> {Image(50, 200, <<0, 0, 0, 0>>), Image(50, 200, <<10, 30, 50, 250>>),
                 Image(50, 200, <<10, 30, 0, 100>>), Image(50, 200, <<0, 50, 0, 200>>),
                 Image(1080, 1920, <<50, 70, 50, 200>>),
                 Image(1080, 1920, <<0, 1080, 0, 1920>>)},
     bar_regions |-> {<<50, 10, 200, 20>>, <<0, 10, 200, 20>>, <<50, 10, 150, 20>>,
                      <<0, 0, 0, 20>>, <<0, 0, 200, 0>>, <<200, 10, 50, 20>>}]

CalibrateUiRegionsCall ==
    /\ Len(calls["bot"]) < MaxCalibrations
    /\ last.op # "extract_bar_percentage"
    /\ \E resolution \in RegionArgs.resolutions :
         /\ monitors' = [monitors EXCEPT !["bot"] = CalibrateUiRegions(@, resolution)]
         /\ calls' = [calls EXCEPT !["bot"] = Append(@, resolution)]
         /\ last' = [NoCall EXCEPT !.op = "calibrate_ui_regions", !.arg = resolution]
    /\ UNCHANGED <<attacks, events, clock>>
    /\ UNCHANGED loopVars

\* extract_bar_percentage changes nothing of the monitor: a run is some
\* calibrations and then one call of it
ExtractBarPercentageCall ==
    /\ last.op # "extract_bar_percentage"
    /\ \E image \in RegionArgs.images :
       \E bar_region \in RegionArgs.bar_regions
                          \cup {monitors["bot"].ui_regions[n] :
                                   n \in {"health_bar", "endurance_bar", "experience_bar"}} :
         last' = [NoCall EXCEPT !.op = "extract_bar_percentage",
                                !.arg = [image |-> image, bar_region |-> bar_region],
                                !.raised = ExtractBarPercentageFrom(image, bar_region).raised,
                                !.v = ExtractBarPercentageFrom(image, bar_region).v]
    /\ UNCHANGED <<attacks, monitors, calls, events, clock>>
    /\ UNCHANGED loopVars

NextRegions == CalibrateUiRegionsCall \/ ExtractBarPercentageCall

SpecRegions == InitMonitor /\ [][NextRegions]_vars

-----------------------------------------------------------------------------
(* GameStateMonitor called directly: get_health_percentage and              *)
(* wait_for_health_recovery, one call on a fresh monitor                    *)

\* frames: health captures a wait may see, 70, 80 and 90 per cent, or a
\* failure.  timeouts: in ms.  costs: how long one capture takes, in ms
WaitArgs ==
    [frames |-> {Frame(g, 0, 0, 0, 0) : g \in {2800, 3200, 3600}} \cup {CaptureFailed},
     timeouts |-> {-1000, 0, 1500} \cup {k * 1000 : k \in 1..MaxSamples},
     costs |-> {0, 300}]

GetHealthPercentageCall ==
    /\ last.op = "none"
    /\ \E cap \in Frames.health \cup {CaptureFailed} :
         last' = [NoCall EXCEPT !.op = "get_health_percentage", !.arg = cap,
                                !.raised = GetHealthPercentage(cap).raised,
                                !.v = GetHealthPercentage(cap).v,
                                !.requests = GetHealthPercentageSteps(cap)]
    /\ UNCHANGED <<attacks, monitors, calls, events, clock>>
    /\ UNCHANGED loopVars

WaitForHealthRecoveryCall ==
    /\ last.op = "none"
    /\ \E caps \in [1..MaxSamples -> WaitArgs.frames], timeout \in WaitArgs.timeouts,
          cost \in WaitArgs.costs :
         LET r == WaitForHealthRecovery(caps, PyInt(80), timeout, cost)
         IN /\ last' = [NoCall EXCEPT !.op = "wait_for_health_recovery",
                                      !.arg = [caps |-> caps, target_percentage |-> PyInt(80),
                                               timeout |-> timeout, cost |-> cost],
                                      !.raised = r.raised, !.ret = r.ret,
                                      !.requests = r.samples, !.events = r.events]
            /\ events' = events \o r.events
            /\ clock' = clock + r.elapsed
    /\ UNCHANGED <<attacks, monitors, calls>>
    /\ UNCHANGED loopVars

\* one of the other read methods, on a monitor that is fresh or has seen an
\* endurance reading before
MonitorReadCall ==
    /\ last.op = "none"
    /\ \E op \in {"get_endurance_percentage", "get_experience_percentage",
                   "detect_enemy_target", "get_player_stats", "detect_combat_state"},
          mon \in {FreshMonitor, Seeded(PyInt(100))} :
       \E caps \in [1..(IF op \in {"get_player_stats", "detect_combat_state"}
                        THEN 3 ELSE 1) ->
                     {BlankFrame, Frame(4000, 0, 3200, 2250, 101), CaptureFailed}] :
         LET r == MonitorRead(op, mon, caps, clock)
         IN /\ last' = [NoCall EXCEPT
                          !.op = op, !.arg = [mon |-> mon, caps |-> caps],
                          !.raised = r.raised, !.v = r.v,
                          !.requests = [i \in 1..r.captures |-> "take_screenshot"]]
            /\ monitors' = [monitors EXCEPT !["bot"] = r.mon]
    /\ UNCHANGED <<attacks, calls, events, clock>>
    /\ UNCHANGED loopVars

NextHealth == GetHealthPercentageCall \/ WaitForHealthRecoveryCall \/ MonitorReadCall

SpecHealth == InitMonitor /\ [][NextHealth]_vars

-----------------------------------------------------------------------------
(* NovaGameplayAI called directly: one call of one method, on an engine     *)
(* whose monitor is fresh or has seen an endurance reading before           *)

CallNovaWithImageCall ==
    /\ last.op = "none"
    /\ \E env \in Envs, image_data \in {PyNone, PyStr("png_base64")},
          scenario \in Scenarios :
         LET prompt == [scenario |-> scenario, game_state |-> PyDict(EmptyItems)]
             r == CallNovaWithImage(prompt, image_data, env)
         IN last' = [NoCall EXCEPT !.op = "call_nova_with_image", !.arg = image_data,
                                   !.env = env, !.raised = r.raised, !.v = r.v,
                                   !.requests = r.requests]
    /\ UNCHANGED <<attacks, monitors, calls, events, clock>>
    /\ UNCHANGED loopVars

AnalyzeGameStateCall ==
    /\ last.op = "none"
    /\ \E st \in StatsGrid :
         last' = [NoCall EXCEPT !.op = "analyze_game_state", !.arg = st,
                                !.v = PyStr(AnalyzeGameState(st))]
    /\ UNCHANGED <<attacks, monitors, calls, events, clock>>
    /\ UNCHANGED loopVars

MakeGameplayDecisionCall ==
    /\ last.op = "none"
    /\ \E st \in StatsCaptures, cb \in CombatCaptures(Frames.endurance),
          tg \in Frames.target \cup {CaptureFailed},
          shot \in {BlankFrame, CaptureFailed}, env \in Envs :
         LET r == MakeGameplayDecision(monitors["ai"], st \o cb \o <<tg, shot>>,
                                       env, clock)
         IN /\ last' = [NoCall EXCEPT !.op = "make_gameplay_decision", !.env = env,
                                      !.raised = r.raised, !.v = r.v,
                                      !.requests = r.requests]
            /\ monitors' = [monitors EXCEPT !["ai"] = r.mon]
    /\ UNCHANGED <<attacks, calls, events, clock>>
    /\ UNCHANGED loopVars

ExecuteDecisionCall ==
    /\ last.op = "none"
    /\ \E dec \in ExecDecisions : \E failAt \in FailPoints(dec) :
         LET r == ExecuteDecision(dec, failAt)
         IN /\ last' = [NoCall EXCEPT !.op = "execute_decision", !.arg = dec,
                                      !.raised = r.raised, !.ret = r.ret,
                                      !.events = r.events, !.failAt = failAt]
            /\ events' = events \o r.events
    /\ UNCHANGED <<attacks, monitors, calls, clock>>
    /\ UNCHANGED loopVars

\* execute_attack_chain(chain_name) on a fresh AttackController; failAt > 0
\* makes the failAt-th event, a key press, raise
ExecuteAttackChainCall ==
    /\ last.op = "none"
    /\ \E chain_name \in DOMAIN attack_chains \cup {"finisher"} :
       \E failAt \in {0} \cup {i \in 1..MaxFailAt :
                                  /\ i <= Len(ExecuteAttackChain(chain_name).events)
                                  /\ ExecuteAttackChain(chain_name).events[i].e = "press"} :
         LET r == ExecuteAttackChain(chain_name)
         IN /\ last' = [NoCall EXCEPT
                          !.op = "execute_attack_chain", !.arg = PyStr(chain_name),
                          !.raised = IF failAt > 0 THEN "InputError" ELSE r.raised,
                          !.events = IF failAt > 0 THEN SubSeq(r.events, 1, failAt - 1)
                                     ELSE r.events,
                          !.failAt = failAt]
            /\ events' = events \o (IF failAt > 0 THEN SubSeq(r.events, 1, failAt - 1)
                                     ELSE r.events)
    /\ UNCHANGED <<attacks, monitors, calls, clock>>
    /\ UNCHANGED loopVars

InitEngine ==
    /\ monitors \in [MonitorIds ->
                       {FreshMonitor, Seeded(PyInt(100)), Seeded(PyFloat(320000, 4000))}]
    /\ monitors["bot"] = FreshMonitor
    /\ calls = [m \in MonitorIds |-> <<>>]
    /\ last = NoCall
    /\ events = <<>>
    /\ clock = 0
    /\ attacks = [hotkeys |-> hotkeys, attack_chains |-> attack_chains,
                  ability_timings |-> ability_timings]
    /\ LoopIdle

NextEngine ==
    \/ CallNovaWithImageCall
    \/ AnalyzeGameStateCall
    \/ MakeGameplayDecisionCall
    \/ ExecuteDecisionCall
    \/ ExecuteAttackChainCall

SpecEngine == InitEngine /\ [][NextEngine]_vars

-----------------------------------------------------------------------------
(* AttackController called directly: chains are added to the registry, then *)
(* one ability is used or one chain is executed                             *)

\* add_custom_chain(name, chain) with a new name or the name of a chain set
\* at construction; a chain may be empty or name a slot that has no hotkey
AddCustomChainCall ==
    /\ last.op \in {"none", "add_custom_chain"}
    /\ \E name \in {"finisher", "basic_combo"} :
       \E chain \in {<< <<9, 500>> >>, << <<1, 500>>, <<12, 500>> >>,
                     << <<0, 100>> >>, <<>>} :
         /\ attacks' = AddCustomChain(attacks, name, chain)
         /\ last' = [NoCall EXCEPT !.op = "add_custom_chain",
                                   !.arg = [name |-> name, chain |-> chain]]
    /\ UNCHANGED <<monitors, calls, events, clock>>
    /\ UNCHANGED loopVars

\* use_ability(ability_number, wait_for_animation=False)
UseAbilityCall ==
    /\ last.op \in {"none", "add_custom_chain"}
    /\ \E ability_number \in {0, 1, 5, 9, 10, 12} :
         /\ last' = [NoCall EXCEPT !.op = "use_ability", !.arg = ability_number,
                                   !.raised = UseAbility(ability_number).raised,
                                   !.events = UseAbility(ability_number).events]
         /\ events' = events \o UseAbility(ability_number).events
    /\ UNCHANGED <<attacks, monitors, calls, clock>>
    /\ UNCHANGED loopVars

\* execute_attack_chain(chain_name, interrupt_on_low_health); caps are the
\* captures the health checks take, one before each step: health 100, 20,
\* 19 per cent, or a failed capture
ExecuteChainCall ==
    /\ last.op \in {"none", "add_custom_chain"}
    /\ \E chain_name \in DOMAIN attacks.attack_chains \cup {"finisher", "opener"},
          interrupt_on_low_health \in BOOLEAN :
       \E caps \in IF interrupt_on_low_health /\ chain_name \in DOMAIN attacks.attack_chains
                    THEN [1..Len(attacks.attack_chains[chain_name]) ->
                            {Frame(4000, 0, 0, 0, 0), Frame(0, 800, 0, 0, 0),
                             Frame(0, 760, 0, 0, 0), CaptureFailed}]
                    ELSE {<<>>} :
         LET r == ExecuteAttackChainOn(attacks, chain_name, interrupt_on_low_health, caps)
         IN /\ last' = [NoCall EXCEPT
                          !.op = "execute_attack_chain",
                          !.arg = [chain_name |-> chain_name,
                                   interrupt_on_low_health |-> interrupt_on_low_health,
                                   caps |-> caps],
                          !.raised = r.raised, !.events = r.events]
            /\ events' = events \o r.events
            /\ clock' = clock + SleepTotal(r.events)
    /\ UNCHANGED <<attacks, monitors, calls>>
    /\ UNCHANGED loopVars

NextAttacks == AddCustomChainCall \/ UseAbilityCall \/ ExecuteChainCall

SpecAttacks == InitMonitor /\ [][NextAttacks]_vars

-----------------------------------------------------------------------------
(* MovementController called directly: timed primitives and                 *)
(* navigate_to_waypoint, a few calls in a row                                *)

\* one of the six timed primitives, with a duration in ms or an angle in
\* degrees
MovementCall ==
    /\ Len(events) < 3 * MaxMoves
    /\ \E op \in {"move_forward", "move_backward", "strafe_left", "strafe_right",
                   "turn_left", "turn_right"} :
       \E arg \in IF op \in {"turn_left", "turn_right"} THEN {30, 45, 90, 180}
                   ELSE {500, 1000, 1500} :
         LET evs == CASE op = "move_forward" -> MoveForward(arg)
                      [] op = "move_backward" -> MoveBackward(arg)
                      [] op = "strafe_left" -> StrafeLeft(arg)
                      [] op = "strafe_right" -> StrafeRight(arg)
                      [] op = "turn_left" -> TurnLeft(arg)
                      [] op = "turn_right" -> TurnRight(arg)
         IN /\ last' = [NoCall EXCEPT !.op = op, !.arg = arg, !.events = evs]
            /\ events' = events \o evs
            /\ clock' = clock + SleepTotal(evs)
    /\ UNCHANGED <<attacks, monitors, calls>>
    /\ UNCHANGED loopVars

\* navigate_to_waypoint(x, y, current_x, current_y): w is <<x, y, current_x,
\* current_y>>
NavigateToWaypointCall ==
    /\ Len(events) < 3 * MaxMoves
    /\ \E w \in {<<10, 10, 8, 9>>, <<100, 100, 0, 0>>, <<3, 4, 0, 0>>, <<4, 2, 0, 0>>,
                  <<16, 15, 8, 9>>, <<12, -5, 0, 0>>, <<20, 3, 0, 0>>, <<48, 9, 8, 9>>,
                  <<-10, 0, 0, 0>>, <<0, -10, 0, 0>>, <<10, 2, 0, 0>>, <<28, 6, 8, 9>>,
                  <<-2, 8, 8, 9>>, <<0, 10, 0, 0>>, <<8, 9, 8, 9>>, <<5, -3, 8, 1>>} :
         LET r == NavigateToWaypoint(w[1], w[2], w[3], w[4])
         IN /\ last' = [NoCall EXCEPT !.op = "navigate_to_waypoint",
                                      !.arg = [x |-> w[1], y |-> w[2], current_x |-> w[3],
                                               current_y |-> w[4]],
                                      !.ret = r.ret, !.events = r.events]
            /\ events' = events \o r.events
            /\ clock' = clock + SleepTotal(r.events)
    /\ UNCHANGED <<attacks, monitors, calls>>
    /\ UNCHANGED loopVars

NextMovement == MovementCall \/ NavigateToWaypointCall

SpecMovement == InitMonitor /\ [][NextMovement]_vars

-----------------------------------------------------------------------------
(* The session: COHGameplayBot.run_gameplay_loop and GameplayLogger         *)

\* decision_interval with DECISION_INTERVAL unset, in seconds
decision_interval == 5

\* bot_*: what the screen shows to the loop's own monitor.  ai_*: what it
\* shows to the engine's monitor.  shots: the capture sent with the request.
\* envs: what the endpoint answers
LoopInputs ==
    [bot_stats |-> {<<Frame(g, 0, 0, 0, 0), Frame(0, 0, 4000, 0, 0),
                      Frame(0, 0, 0, 2250, 0)>> : g \in {3000, 4000}}
                   \cup FailedTriples,
     bot_combat |-> {<<BlankFrame, Frame(0, 0, 4000, 0, 0), BlankFrame>>},
     bot_target |-> {Frame(0, 0, 0, 0, 101)},
     ai_stats |-> {<<Frame(g, 0, 0, 0, 0), Frame(0, 0, 4000, 0, 0),
                     Frame(0, 0, 0, 2250, 0)>> : g \in {800, 4000}}
                  \cup FailedTriples,
     ai_combat |-> CombatCaptures({Frame(0, 0, 4000, 0, 0), Frame(0, 0, 3200, 0, 0)}),
     ai_target |-> {Frame(0, 0, 0, 0, 0)},
     shots |-> {BlankFrame, CaptureFailed},
     envs |-> {Env("error", <<>>), Env("ok", ObjAR("move_forward", "why")),
               Env("ok", ObjAR("attack", "why")), Env("ok", ObjAR("dance", "why")),
               Env("ok", <<Tok("[", ""), Tok("]", "")>>), Env("ok", Prose)}]

\* display_game_state(stats): a str times a float raises TypeError, and
\* health // 10 is a float when health is
DisplayGameState(st) ==
    IF Get(st, "health", PyInt(0)).ty = "float" THEN "TypeError"
    ELSE IF Get(st, "endurance", PyInt(0)).ty = "float" THEN "TypeError"
    ELSE "none"

\* the three monitor calls at the top of the loop body
SampleOf(mon, st, combat, target) ==
    IF st.raised # "none" THEN [raised |-> st.raised, v |-> PyNone, mon |-> mon]
    ELSE IF combat.raised # "none"
    THEN [raised |-> combat.raised, v |-> PyNone, mon |-> mon]
    ELSE IF target.raised # "none"
    THEN [raised |-> target.raised, v |-> PyNone, mon |-> combat.mon]
    ELSE [raised |-> "none",
          v |-> PyDict(Put(Put(st.v.items, "in_combat", combat.v),
                           "enemy_targeted", target.v)),
          mon |-> combat.mon]

\* LogEntry numbering the entries from 0
LogEntryFromZero(dec, success, history, now) ==
    [timestamp |-> now, decision |-> dec, execution_success |-> success,
     session_action_count |-> Len(history)]

\* log_decision's log_entry
LogEntry(dec, success, history, now) ==
    [timestamp |-> now, decision |-> dec, execution_success |-> success,
     session_action_count |-> Len(history) + 1]

\* NextStep with the log call placed before the execute call
NextStepLogFirst(step) ==
    CASE step = "sample" -> "display"
      [] step = "display" -> "decide"
      [] step = "decide" -> "log"
      [] step = "log" -> "execute"
      [] step = "execute" -> "sleep"
      [] step = "sleep" -> "sample"

\* the statement after each statement of the loop body
NextStep(step) ==
    CASE step = "sample" -> "display"
      [] step = "display" -> "decide"
      [] step = "decide" -> "execute"
      [] step = "execute" -> "log"
      [] step = "log" -> "sleep"
      [] step = "sleep" -> "sample"

Steps == {"sample", "display", "decide", "execute", "log", "sleep"}

\* a step of the body completes: on to the next statement
Advance(cycle) ==
    /\ trace' = Append(trace, <<cycle, pc>>)
    /\ pc' = NextStep(pc)
    /\ UNCHANGED <<running, cleanups, stop_cause>>

\* Leave with the handler carrying on with the next cycle
LeaveAndRetry(cause) ==
    /\ pc' = "sample"
    /\ stop_cause' = cause
    /\ UNCHANGED <<running, trace, cleanups>>

\* an exception leaves the body: the except clause, then finally
Leave(cause) == /\ pc' = "cleanup"
                /\ running' = FALSE
                /\ stop_cause' = cause
                /\ UNCHANGED <<trace, cleanups>>

\* ValidateEnvironment asking for one of the two variables only
ValidateEnvironmentEither(environ) ==
    \E var \in {"AWS_ACCESS_KEY_ID", "AWS_SECRET_ACCESS_KEY"} : Truthy(environ[var])

\* validate_environment: os.getenv gives None for a variable that is unset
ValidateEnvironment(environ) ==
    \A var \in {"AWS_ACCESS_KEY_ID", "AWS_SECRET_ACCESS_KEY"} : Truthy(environ[var])

\* main(): the bot is built, the environment validated, and the loop entered
\* only when validation passed
MainCall ==
    /\ pc = "idle" /\ last.op = "none"
    /\ \E environ \in [{"AWS_ACCESS_KEY_ID", "AWS_SECRET_ACCESS_KEY"} ->
                         {PyNone, PyStr(""), PyStr("secret")}] :
         /\ last' = [NoCall EXCEPT !.op = "main", !.arg = environ]
         /\ IF ValidateEnvironment(environ)
            THEN running' = TRUE /\ pc' = "sample"
            ELSE pc' = "returned" /\ UNCHANGED running
    /\ UNCHANGED <<attacks, monitors, calls, action_count, stats, decision,
                   execution_success, action_history, session_file, events, trace,
                   cleanups, stop_cause, clock>>

\* run_gameplay_loop is entered
StartLoop ==
    /\ pc = "idle"
    /\ running' = TRUE
    /\ pc' = "sample"
    /\ UNCHANGED <<attacks, monitors, calls, last, action_count, stats, decision,
                   execution_success, action_history, session_file, events, trace,
                   cleanups, stop_cause, clock>>

SampleDone(r) ==
    /\ monitors' = [monitors EXCEPT !["bot"] = r.mon]
    /\ action_count' = action_count + 1
    /\ IF r.raised # "none"
       THEN Leave("exception") /\ UNCHANGED stats
       ELSE Advance(action_count + 1) /\ stats' = r.v

\* action_count += 1 and the three monitor calls
SampleState ==
    /\ pc = "sample" /\ running
    /\ action_count < MaxCycles
    /\ \E sc \in LoopInputs.bot_stats, cc \in LoopInputs.bot_combat, tg \in LoopInputs.bot_target :
         SampleDone(SampleOf(monitors["bot"], GetPlayerStats(sc, clock),
                             DetectCombatState(monitors["bot"], cc, clock),
                             DetectEnemyTarget(tg)))
    /\ UNCHANGED <<attacks, calls, last, decision, execution_success, action_history,
                   session_file, events, clock>>

\* self.display_game_state(stats)
DisplayState ==
    /\ pc = "display"
    /\ IF DisplayGameState(stats) # "none" THEN Leave("exception") ELSE Advance(action_count)
    /\ UNCHANGED <<attacks, monitors, calls, last, action_count, stats, decision,
                   execution_success, action_history, session_file, events, clock>>

DecideDone(r) ==
    /\ monitors' = [monitors EXCEPT !["ai"] = r.mon]
    /\ IF r.raised # "none"
       THEN Leave("exception") /\ UNCHANGED decision
       ELSE Advance(action_count) /\ decision' = r.v

\* decision = self.ai.make_gameplay_decision()
Decide ==
    /\ pc = "decide"
    /\ \E sc \in LoopInputs.ai_stats, cc \in LoopInputs.ai_combat, tg \in LoopInputs.ai_target,
          shot \in LoopInputs.shots, env \in LoopInputs.envs :
         DecideDone(MakeGameplayDecision(monitors["ai"], sc \o cc \o <<tg, shot>>,
                                         env, clock))
    /\ UNCHANGED <<attacks, calls, last, action_count, stats, execution_success,
                   action_history, session_file, events, clock>>

ExecuteDone(r) ==
    /\ events' = events \o r.events
    /\ clock' = clock + SleepTotal(r.events)
    /\ IF r.raised # "none"
       THEN Leave("exception") /\ UNCHANGED execution_success
       ELSE Advance(action_count) /\ execution_success' = r.ret

\* execution_success = self.ai.execute_decision(decision)
Execute ==
    /\ pc = "execute"
    /\ \E failAt \in FailPoints(decision) : ExecuteDone(ExecuteDecision(decision, failAt))
    /\ UNCHANGED <<attacks, monitors, calls, last, action_count, stats, decision,
                   action_history, session_file>>

\* self.logger.log_decision(decision, execution_success); the write of the
\* session file may fail, after log_entry has been appended
LogDecision ==
    /\ pc = "log"
    /\ action_history' = Append(action_history,
                                LogEntry(decision, execution_success, action_history, clock))
    /\ \E write_ok \in BOOLEAN :
         IF write_ok
         THEN Advance(action_count) /\ session_file' = [written |-> TRUE, entries |-> action_history']
         ELSE Leave("exception") /\ UNCHANGED session_file
    /\ UNCHANGED <<attacks, monitors, calls, last, action_count, stats, decision,
                   execution_success, events, clock>>

\* time.sleep(self.decision_interval)
SleepInterval ==
    /\ pc = "sleep"
    /\ clock' = clock + decision_interval * 1000
    /\ Advance(action_count)
    /\ UNCHANGED <<attacks, monitors, calls, last, action_count, stats, decision,
                   execution_success, action_history, session_file, events>>

\* Ctrl+C while the body runs: KeyboardInterrupt at the current statement;
\* during execute_decision the routine's events up to the interrupt are out
Interrupt ==
    /\ pc \in Steps
    /\ Leave("interrupt")
    /\ IF pc = "execute"
       THEN \E k \in 0..MaxFailAt :
              /\ k <= Len(ExecuteDecision(decision, 0).events)
              /\ events' = events \o SubSeq(ExecuteDecision(decision, 0).events, 1, k)
       ELSE UNCHANGED events
    /\ UNCHANGED <<attacks, monitors, calls, last, action_count, stats, decision,
                   execution_success, action_history, session_file, clock>>

\* finally: self.cleanup()
Cleanup ==
    /\ pc = "cleanup"
    /\ cleanups' = cleanups + 1
    /\ pc' = "done"
    /\ UNCHANGED <<attacks, monitors, calls, last, running, action_count, stats, decision,
                   execution_success, action_history, session_file, events, trace,
                   stop_cause, clock>>

InitLoop ==
    /\ monitors = [m \in MonitorIds |-> FreshMonitor]
    /\ calls = [m \in MonitorIds |-> <<>>]
    /\ last = NoCall
    /\ events = <<>>
    /\ clock = 0
    /\ attacks = [hotkeys |-> hotkeys, attack_chains |-> attack_chains,
                  ability_timings |-> ability_timings]
    /\ LoopIdle

NextLoop ==
    \/ MainCall
    \/ StartLoop
    \/ SampleState
    \/ DisplayState
    \/ Decide
    \/ Execute
    \/ LogDecision
    \/ SleepInterval
    \/ Interrupt
    \/ Cleanup

SpecLoop == InitLoop /\ [][NextLoop]_vars

-----------------------------------------------------------------------------
(* Properties *)

\* the decision a completed make_gameplay_decision call returned
Returned_mgd == last.op = "make_gameplay_decision" /\ last.raised = "none"

HasStr(dv, k) == k \in DOMAIN dv.items /\ dv.items[k].ty = "str"

\* C1: every Decision make_gameplay_decision returns has an action of its
\* scenario's allowed action set (a reply naming any other action comes back
\* as the default 'rest').
C1_ActionInScenarioSet ==
    (Returned_mgd /\ HasStr(last.v, "action")) =>
        last.v.items["action"].s \in decision_prompts[last.v.items["scenario"].s]

\* C2: make_gameplay_decision never raises and always returns a dict with an
\* action, a reason, the scenario, the snapshot and the timestamp, whatever
\* the inference call and the reply text do (stated here for the calls whose
\* captures let them reach the inference request).
C2_AlwaysUsableDecision ==
    (last.op = "make_gameplay_decision" /\ Len(last.requests) = 1) =>
        /\ last.raised = "none"
        /\ last.v.ty = "dict"
        /\ {"action", "reason", "scenario", "game_state", "timestamp"}
              \subseteq DOMAIN last.v.items

\* C3: call_nova_with_image raises nothing and issues exactly one inference
\* request; when the call fails, the response envelope is malformed or the
\* reply text is no JSON, it returns action 'rest' with a non-empty reason.
C3_DefaultOnFailure ==
    last.op = "call_nova_with_image" =>
        /\ last.raised = "none"
        /\ Len(last.requests) = 1
        /\ (last.env.call # "ok" \/ ~JsonLoads(last.env.text).ok) =>
              /\ last.v.ty = "dict"
              /\ HasStr(last.v, "action") /\ last.v.items["action"].s = "rest"
              /\ HasStr(last.v, "reason") /\ last.v.items["reason"].s # ""

\* a reply wrapped in a code fence is no JSON and came back as 'rest'
C3_Witness ==
    /\ last.op = "call_nova_with_image"
    /\ last.env = Env("ok", Fenced("rest"))
    /\ last.v = DefaultDecision("Failed to parse AI response")
    /\ Len(last.requests) = 1

\* C4: analyze_game_state returns exactly one of recovery, combat,
\* exploration, by first match: recovery iff health < 30 or endurance < 20,
\* else combat iff in_combat or enemy_targeted, else exploration.
C4_ScenarioPriority ==
    last.op = "analyze_game_state" =>
        /\ last.v.s \in Scenarios
        /\ {"health", "endurance", "in_combat", "enemy_targeted"}
              \subseteq DOMAIN last.arg.items =>
              LET h == last.arg.items["health"]
                  e == last.arg.items["endurance"]
                  low == h.n < 30 * h.d \/ e.n < 20 * e.d
                  fight == last.arg.items["in_combat"].b
                           \/ last.arg.items["enemy_targeted"].b
              IN /\ last.v.s = "recovery" <=> low
                 /\ last.v.s = "combat" <=> (~low /\ fight)
                 /\ last.v.s = "exploration" <=> (~low /\ ~fight)

\* health exactly 30 and endurance exactly 20 with a combat flag set: combat
C4_Witness ==
    /\ last.op = "analyze_game_state"
    /\ last.arg = PyDict([health |-> PyInt(30), endurance |-> PyFloat(800, 40),
                          in_combat |-> PyBool(TRUE), enemy_targeted |-> PyBool(FALSE)])
    /\ last.v.s = "combat"

\* the drop from reading a to reading b exceeds 5 percentage points
DropExceeds5(a, b) == a.n * b.d - b.n * a.d > 5 * a.d * b.d

\* C5: every detect_combat_state call after the first returns true iff the
\* endurance seen by the immediately preceding call minus the current
\* endurance exceeds 5, also when the preceding call returned true.
C5_BaselineIsPreviousCall ==
    \A m \in MonitorIds : \A i \in 2..Len(calls[m]) :
        (calls[m][i - 1].raised = "none" /\ calls[m][i].raised = "none") =>
            (calls[m][i].ret <=> DropExceeds5(calls[m][i - 1].endurance,
                                              calls[m][i].endurance))

\* C6: the first detect_combat_state call on a fresh monitor returns false
\* and records its endurance as the baseline; the second returns true iff the
\* drop from the first exceeds 5.
C6_FirstCallSeeds ==
    \A m \in MonitorIds :
        /\ (Len(calls[m]) >= 1 /\ calls[m][1].raised = "none") =>
              /\ ~calls[m][1].ret
              /\ Len(calls[m]) = 1 => monitors[m] = Seeded(calls[m][1].endurance)
        /\ (Len(calls[m]) >= 2 /\ calls[m][1].raised = "none"
                               /\ calls[m][2].raised = "none") =>
              (calls[m][2].ret <=> DropExceeds5(calls[m][1].endurance,
                                                calls[m][2].endurance))

\* 80 then 70 on one monitor: false, then true
C6_Witness ==
    \E m \in MonitorIds :
        /\ Len(calls[m]) >= 2
        /\ calls[m][1] = [raised |-> "none", ret |-> FALSE, endurance |-> PyFloat(320000, 4000)]
        /\ calls[m][2] = [raised |-> "none", ret |-> TRUE, endurance |-> PyFloat(280000, 4000)]

\* the current cycle's state sample completed
SampledThisCycle == \E i \in 1..Len(trace) : trace[i] = <<action_count, "sample">>

\* C7: every cycle the loop starts has its log entry by the time the loop
\* moves on to the next cycle or stops on an error, whatever stats values the
\* sample gave the state display.
C7_EveryCycleLogged ==
    (\/ pc = "sleep"
     \/ pc \in {"cleanup", "done"} /\ stop_cause = "exception" /\ SampledThisCycle)
        => Len(action_history) = action_count

\* where the loop is agrees with running, the stop cause and cleanup's count
StoppedStateOk ==
    /\ pc \in Steps => (running /\ stop_cause = "none" /\ cleanups = 0)
    /\ pc = "cleanup" => (~running /\ cleanups = 0
                          /\ stop_cause \in {"interrupt", "exception"})
    /\ pc = "done" => (~running /\ cleanups = 1
                       /\ stop_cause \in {"interrupt", "exception"})

\* once the body is left no cycle step follows
StoppedStaysStopped ==
    pc \in {"cleanup", "done"} =>
        (/\ pc' \in {"cleanup", "done"}
         /\ trace' = trace
         /\ action_count' = action_count
         /\ stop_cause' = stop_cause)

\* C8: the loop leaves its body only by an interrupt or an exception; then
\* running is false, the body is never re-entered, and cleanup runs exactly
\* once, after the last step of the last cycle.
C8_StopsOnceThenCleanup == []StoppedStateOk /\ [][StoppedStaysStopped]_vars

\* an exception in the second cycle, then cleanup
C8_Witness ==
    /\ pc = "done" /\ stop_cause = "exception"
    /\ action_count = 2 /\ cleanups = 1 /\ ~running

StepOrder == <<"sample", "decide", "execute", "log", "sleep">>
NotDisplay(e) == e[2] # "display"

\* C9: the steps of the loop occur in the order sample, decide, execute, log,
\* sleep within a cycle, cycle after cycle: no step of cycle n+1 comes before
\* the log (and sleep) of cycle n, and each cycle executes at most one action.
C9_StrictlySequential ==
    LET t == SelectSeq(trace, NotDisplay) IN
    \A i \in 1..Len(t) : t[i] = <<((i - 1) \div 5) + 1, StepOrder[((i - 1) % 5) + 1]>>

\* two whole cycles have run
C9_Witness == Len(trace) >= 12 /\ trace[Len(trace)] = <<2, "sleep">>

\* C10: execute_decision on an action outside the 13 known names returns
\* false, raises nothing and issues no input event and no timed wait.
C10_UnknownActionNoEffects ==
    (/\ last.op = "execute_decision"
     /\ "action" \in DOMAIN last.arg.items
     /\ ~(HasStr(last.arg, "action") /\ last.arg.items["action"].s \in KnownActions))
        => /\ last.ret = FALSE
           /\ last.raised = "none"
           /\ last.events = <<>>
           /\ events = <<>>

\* the action 'dance' was refused
C10_Witness ==
    /\ last.op = "execute_decision"
    /\ last.arg = PyDict([action |-> PyStr("dance"), reason |-> PyStr("why")])
    /\ last.ret = FALSE

\* C11: execute_decision returns false only when the action name is unknown:
\* a decision whose action (rest when it has none) is one of the 13 known
\* names gives true, also when its input routine fails part-way.
C11_KnownActionReturnsTrue ==
    (/\ last.op = "execute_decision"
     /\ last.arg.ty = "dict"
     /\ Get(last.arg, "action", PyStr("rest")).ty = "str"
     /\ Get(last.arg, "action", PyStr("rest")).s \in KnownActions)
        => last.ret = TRUE

\* C12: calibration replaces and does not accumulate: after any sequence of
\* calibrations the regions are those of one calibration, to the last
\* resolution given, of the regions set at construction.
C12_CalibrationReplaces ==
    Len(calls["bot"]) >= 1 =>
        monitors["bot"].ui_regions =
            CalibrateUiRegions(FreshMonitor, calls["bot"][Len(calls["bot"])]).ui_regions

\* (x, y, width, height) scaled by w / 1920 and h / 1080 and truncated
ExactScale(region, resolution) ==
    <<(region[1] * resolution[1]) \div 1920, (region[2] * resolution[2]) \div 1080,
      (region[3] * resolution[1]) \div 1920, (region[4] * resolution[2]) \div 1080>>

\* C13: one calibrate_ui_regions((w, h)) on a fresh monitor maps every region
\* to (trunc(x*w/1920), trunc(y*h/1080), trunc(width*w/1920),
\* trunc(height*h/1080)), keeps the region names, and for a resolution below
\* the reference makes the health bar's x and y strictly smaller.
C13_LinearRescale ==
    Len(calls["bot"]) = 1 =>
        /\ DOMAIN monitors["bot"].ui_regions = DOMAIN ui_regions
        /\ \A name \in DOMAIN ui_regions :
              monitors["bot"].ui_regions[name] = ExactScale(ui_regions[name], calls["bot"][1])
        /\ (calls["bot"][1][1] < 1920 /\ calls["bot"][1][2] < 1080) =>
              /\ monitors["bot"].ui_regions["health_bar"][1] < ui_regions["health_bar"][1]
              /\ monitors["bot"].ui_regions["health_bar"][2] < ui_regions["health_bar"][2]

\* C14: whatever calibrations with positive resolutions a monitor has seen,
\* every stored region has width > 0 and height > 0.
C14_RegionsKeepArea ==
    \A name \in DOMAIN monitors["bot"].ui_regions :
        /\ monitors["bot"].ui_regions[name][3] > 0
        /\ monitors["bot"].ui_regions[name][4] > 0

\* an extract_bar_percentage call that returned
Returned_ebp == last.op = "extract_bar_percentage" /\ last.raised = "none"

\* C15: when every pixel of the sampled region matches the colour range
\* extract_bar_percentage returns 100, and when none matches it returns 0,
\* also for a region that reaches past the image border.
C15_FullAndEmptyBars ==
    Returned_ebp =>
        /\ CountNonZero(last.arg.image, last.arg.bar_region)
              = CropArea(last.arg.image, last.arg.bar_region)
              => last.v.n = 100 * last.v.d
        /\ CountNonZero(last.arg.image, last.arg.bar_region) = 0 => last.v.n = 0

\* C16: for every image and region extract_bar_percentage returns a value in
\* [0, 100] that equals matched_pixels * 100 / total_pixels.
C16_PercentageOfRegion ==
    last.op = "extract_bar_percentage" =>
        /\ last.raised = "none"
        /\ IsNumber(last.v)
        /\ 0 <= last.v.n /\ last.v.n <= 100 * last.v.d
        /\ \/ /\ last.v.d = last.arg.bar_region[3] * last.arg.bar_region[4]
              /\ last.v.n = 100 * CountNonZero(last.arg.image, last.arg.bar_region)
           \/ /\ last.v.d = 1
              /\ last.v.n * last.arg.bar_region[3] * last.arg.bar_region[4]
                    = 100 * CountNonZero(last.arg.image, last.arg.bar_region)

\* C17: on a region of width 0 or height 0 extract_bar_percentage returns 0
\* and raises nothing.
C17_ZeroAreaGivesZero ==
    (/\ last.op = "extract_bar_percentage"
     /\ (last.arg.bar_region[3] = 0 \/ last.arg.bar_region[4] = 0))
        => /\ last.raised = "none"
           /\ IsNumber(last.v) /\ last.v.n = 0

\* C18: get_health_percentage takes one capture, extracts the health region
\* from it twice, green then red, and returns the larger of the two
\* percentages of the bar's 4000 pixels.
C18_HealthIsMaxOfGreenAndRed ==
    (last.op = "get_health_percentage" /\ last.raised = "none") =>
        /\ last.requests = <<"take_screenshot", "extract_bar_percentage health_green",
                             "extract_bar_percentage health_red">>
        /\ last.v.n * 4000
              = 100 * last.v.d * (IF last.arg.green > last.arg.red
                                  THEN last.arg.green ELSE last.arg.red)

\* green 0 and red 60 per cent: 60
C18_Witness ==
    /\ last.op = "get_health_percentage"
    /\ last.arg = Frame(0, 2400, 0, 0, 0)
    /\ last.v = PyFloat(240000, 4000)

\* the health the i-th capture of a wait shows is at least 80 per cent
Recovered(i) == last.arg.caps[i].ok /\ last.arg.caps[i].green >= 3200

\* C19: wait_for_health_recovery returns true iff a sample taken before the
\* timeout elapsed is >= target, at once and without a further sleep, and
\* false iff the timeout elapsed with every sample below target; one sample
\* per turn, one sleep of 1 s after each sample below target.
C19_WaitReturnsOnRecovery ==
    (last.op = "wait_for_health_recovery" /\ last.raised = "none") =>
        LET n == Len(last.requests)
            turn == last.arg.cost + 1000
        IN /\ \A i \in 1..n : (i - 1) * turn < last.arg.timeout
           /\ \A i \in 1..n : last.requests[i].n * 4000
                                 = 100 * last.requests[i].d * last.arg.caps[i].green
           /\ \A i \in 1..Len(last.events) : last.events[i] = Sleep(1000)
           /\ last.ret <=> \E i \in 1..n : Recovered(i)
           /\ last.ret =>
                 /\ Recovered(n)
                 /\ \A i \in 1..(n - 1) : ~Recovered(i)
                 /\ Len(last.events) = n - 1
           /\ ~last.ret =>
                 /\ n * turn >= last.arg.timeout
                 /\ Len(last.events) = n

\* 70, then exactly 80 per cent within a timeout of 2 s: true after one sleep
C19_Witness ==
    /\ last.op = "wait_for_health_recovery"
    /\ last.arg.timeout = 2000
    /\ last.arg.caps[1] = Frame(2800, 0, 0, 0, 0)
    /\ last.arg.caps[2] = Frame(3200, 0, 0, 0, 0)
    /\ last.ret = TRUE
    /\ last.events = <<Sleep(1000)>>

\* C20: execute_attack_chain(name), interrupt policy off, presses the keys of
\* the named chain in chain order, once each, and waits each element's wait
\* right after its press; nothing else is pressed.
C20_ChainPressedInOrder ==
    (/\ last.op = "execute_attack_chain"
     /\ last.arg.s \in DOMAIN attack_chains)
        => LET chain == attack_chains[last.arg.s]
           IN /\ last.failAt = 0 =>
                    /\ last.raised = "none"
                    /\ Len(last.events) = 2 * Len(chain)
              /\ Len(last.events) <= 2 * Len(chain)
              /\ \A i \in 1..Len(last.events) :
                    last.events[i] = IF i % 2 = 1
                                     THEN Press(hotkeys[chain[(i + 1) \div 2][1]])
                                     ELSE Sleep(chain[i \div 2][2])

\* aoe_combo ran whole: 7, 8, 9 with waits of 2.5, 3 and 1 s
C20_Witness ==
    /\ last.op = "execute_attack_chain"
    /\ last.arg = PyStr("aoe_combo")
    /\ last.events = <<Press("7"), Sleep(2500), Press("8"), Sleep(3000),
                       Press("9"), Sleep(1000)>>

\* the key presses among a sequence of events, in order
PressesOf(evs) == SelectSeq(evs, LAMBDA e : e.e = "press")

\* the first step of the executed chain whose health check read below 20 with
\* nothing raised before it, or 0
FirstLowCheck ==
    LET chain == attacks.attack_chains[last.arg.chain_name]
        low(i) == /\ GetHealthPercentage(last.arg.caps[i]).raised = "none"
                  /\ NumLt(GetHealthPercentage(last.arg.caps[i]).v, PyInt(20))
        clear(i) == /\ GetHealthPercentage(last.arg.caps[i]).raised = "none"
                    /\ ~low(i)
                    /\ chain[i][1] \in DOMAIN hotkeys
        S == {i \in 1..Len(chain) : low(i) /\ \A j \in 1..(i - 1) : clear(j)}
    IN IF S = {} THEN 0 ELSE CHOOSE i \in S : TRUE

\* C21: with interrupt_on_low_health the health is read before each step and
\* a reading below 20 ends the chain: the keys of the steps before it are
\* pressed and no other, one capture was taken per step begun, and a capture
\* comes only at the start or right after a step's wait; with the policy off
\* no capture is taken
C21_LowHealthAbortsChain ==
    (last.op = "execute_attack_chain"
     /\ last.arg.chain_name \in DOMAIN attacks.attack_chains)
    => LET chain == attacks.attack_chains[last.arg.chain_name]
           shots == SelectSeq(last.events, LAMBDA e : e.e = "screenshot")
       IN IF last.arg.interrupt_on_low_health
          THEN /\ FirstLowCheck > 0 =>
                    /\ last.raised = "none"
                    /\ PressesOf(last.events)
                         = [i \in 1..(FirstLowCheck - 1) |-> Press(hotkeys[chain[i][1]])]
                    /\ Len(shots) = FirstLowCheck
                    /\ last.events[Len(last.events)].e = "screenshot"
               /\ Len(shots) \in {Len(PressesOf(last.events)),
                                   Len(PressesOf(last.events)) + 1}
               /\ \A j \in 1..Len(last.events) :
                    last.events[j].e = "screenshot"
                    => (j = 1 \/ last.events[j - 1].e = "sleep")
               /\ \A j \in 1..Len(last.events) :
                    last.events[j].e = "press"
                    => /\ last.events[j - 1].e = "screenshot"
                       /\ j < Len(last.events) /\ last.events[j + 1].e = "sleep"
          ELSE shots = <<>>

\* a chain of three steps was cut short by the second health check
C21_Witness ==
    /\ last.op = "execute_attack_chain"
    /\ last.arg.chain_name = "basic_combo"
    /\ last.arg.interrupt_on_low_health
    /\ attacks.attack_chains["basic_combo"] = attack_chains.basic_combo
    /\ FirstLowCheck = 2
    /\ last.events = <<Ev("screenshot", "", 0), Press("1"), Sleep(1200),
                       Ev("screenshot", "", 0)>>

\* C22: use_ability with a slot that has no hotkey, and execute_attack_chain
\* with a name the registry does not hold, raise ValueError with no key
\* pressed, no wait made and no capture taken
C22_UnknownSlotOrChainRaisesFirst ==
    /\ (last.op = "use_ability" /\ last.arg \notin DOMAIN hotkeys)
       => (last.raised = "ValueError" /\ last.events = <<>> /\ events = <<>>)
    /\ (last.op = "execute_attack_chain"
        /\ last.arg.chain_name \notin DOMAIN attacks.attack_chains)
       => (last.raised = "ValueError" /\ last.events = <<>> /\ events = <<>>)

\* an unknown chain name was refused on a controller whose registry had been
\* added to
C22_Witness ==
    /\ last.op = "execute_attack_chain"
    /\ last.arg.chain_name = "opener"
    /\ "finisher" \in DOMAIN attacks.attack_chains
    /\ last.raised = "ValueError"
    /\ events = <<>>

\* C23: every step of every chain of the registry names a slot that has a
\* hotkey, and no execution of a chain raises ValueError after a key press
C23_RegistrySlotsHaveHotkeys ==
    /\ \A name \in DOMAIN attacks.attack_chains :
         \A i \in 1..Len(attacks.attack_chains[name]) :
            attacks.attack_chains[name][i][1] \in DOMAIN hotkeys
    /\ (last.op = "execute_attack_chain" /\ last.raised = "ValueError")
       => PressesOf(last.events) = <<>>

\* the log only grows at its end
AppendsOnly ==
    /\ Len(action_history') >= Len(action_history)
    /\ SubSeq(action_history', 1, Len(action_history)) = action_history

\* log_decision raised at the write of the file, its entry appended already
WriteFailed ==
    /\ stop_cause = "exception"
    /\ trace # <<>> /\ trace[Len(trace)][2] = "execute"

\* C24: the entries of the log are never changed, removed or reordered, the
\* i-th entry carries the number i, and once a log_decision has returned the
\* session file holds exactly the entries in memory
C24_LogAppendOnly ==
    /\ [](/\ \A i \in 1..Len(action_history) :
               action_history[i].session_action_count = i
          /\ ~WriteFailed => session_file.entries = action_history)
    /\ [][AppendsOnly]_vars

\* the second entry has been logged and written
C24_Witness ==
    /\ Len(action_history) = 2
    /\ action_history[2].session_action_count = 2
    /\ session_file = [written |-> TRUE, entries |-> action_history]
    /\ pc = "sleep"

\* C25: when main finds AWS_ACCESS_KEY_ID or AWS_SECRET_ACCESS_KEY unset or
\* empty it returns: the loop is not entered, no cycle runs, no input event
\* is issued and nothing is logged
C25_NoLoopWithoutCredentials ==
    (/\ last.op = "main"
     /\ \E var \in DOMAIN last.arg : last.arg[var] \in {PyNone, PyStr("")})
    => /\ pc = "returned" /\ ~running
       /\ action_count = 0 /\ trace = <<>>
       /\ events = <<>>
       /\ action_history = <<>> /\ ~session_file.written

\* main returned with the secret key set to the empty string
C25_Witness ==
    /\ last.op = "main"
    /\ last.arg["AWS_ACCESS_KEY_ID"] = PyStr("secret")
    /\ last.arg["AWS_SECRET_ACCESS_KEY"] = PyStr("")
    /\ pc = "returned"

\* C26: an interrupt that arrives while a cycle is in progress cancels no
\* step: when the loop has stopped on an interrupt, every cycle it started
\* has completed its execute and log steps
C26_InterruptOnlyBetweenCycles ==
    (stop_cause = "interrupt" /\ action_count > 0)
    => /\ \E i \in 1..Len(trace) : trace[i] = <<action_count, "execute">>
       /\ \E i \in 1..Len(trace) : trace[i] = <<action_count, "log">>
       /\ Len(action_history) = action_count

\* C27: the stats the loop sampled and displayed in a cycle are the stats
\* embedded in the decision logged for that cycle, and one monitor only has
\* had its last_endurance set
C27_OneSnapshotPerCycle ==
    (pc = "sleep" /\ action_history # <<>>)
    => LET logged == action_history[Len(action_history)].decision.items["game_state"]
       IN /\ logged.items["health"] = stats.items["health"]
          /\ logged.items["endurance"] = stats.items["endurance"]
          /\ logged.items["in_combat"] = stats.items["in_combat"]
          /\ logged.items["enemy_targeted"] = stats.items["enemy_targeted"]
          /\ ~(monitors["bot"].has_last /\ monitors["ai"].has_last)

\* C28: when the work of the first cycle took less than the decision
\* interval, the second cycle starts one decision interval after the first
C28_FixedInterval ==
    (/\ trace # <<>> /\ trace[Len(trace)] = <<1, "sleep">>
     /\ SleepTotal(events) < decision_interval * 1000)
    => clock = decision_interval * 1000

\* the decision of the current cycle names an action execute_decision has no
\* branch for
UnknownAction ==
    /\ decision.ty = "dict"
    /\ HasStr(decision, "action")
    /\ decision.items["action"].s \notin KnownActions

\* C29: an action outside the known set makes execute_decision return false
\* and raise nothing: the cycle logs the decision with execution_success
\* false, sleeps, and the loop goes on to its next cycle
C29_UnknownActionLoggedAndLoopContinues ==
    /\ (pc = "log" /\ UnknownAction) => execution_success = FALSE
    /\ (pc = "sleep" /\ UnknownAction)
       => /\ Len(action_history) = action_count
          /\ action_history[action_count].decision = decision
          /\ action_history[action_count].execution_success = FALSE
    /\ (pc = "sample" /\ UnknownAction /\ trace[Len(trace)] = <<action_count, "sleep">>)
       => (running /\ stop_cause = "none")
    /\ (stop_cause = "exception" /\ trace # <<>> /\ trace[Len(trace)][2] = "decide")
       => ~UnknownAction

\* the first cycle logged the unknown action 'dance' as failed and the second
\* cycle has taken its sample
C29_Witness ==
    /\ action_count = 2
    /\ trace[Len(trace)] = <<2, "sample">>
    /\ action_history[1].decision.items["action"] = PyStr("dance")
    /\ action_history[1].execution_success = FALSE
    /\ running

\* the first capture of a sequence that failed, or 0
FirstFailed(caps) ==
    IF \E i \in 1..Len(caps) : ~caps[i].ok
    THEN CHOOSE i \in 1..Len(caps) : ~caps[i].ok /\ \A j \in 1..(i - 1) : caps[j].ok
    ELSE 0

\* the failed capture a wait comes to: every sample before it was below the
\* target and the timeout had not passed when its turn began; or 0
FailedSample ==
    LET k == FirstFailed(last.arg.caps)
    IN IF /\ k > 0
          /\ (k - 1) * (last.arg.cost + 1000) < last.arg.timeout
          /\ \A j \in 1..(k - 1) :
               NumLt(GetHealthPercentage(last.arg.caps[j]).v, last.arg.target_percentage)
       THEN k ELSE 0

\* C30: a capture that fails makes every read method of the monitor raise
\* the capture's error with no value returned; the failed capture is taken
\* once, no capture follows it, and the monitor's last_endurance is as before
C30_CaptureFailurePropagates ==
    /\ (last.op = "get_health_percentage" /\ ~last.arg.ok)
       => /\ last.raised = "CaptureError" /\ last.v = PyNone
          /\ last.requests = <<"take_screenshot">>
    /\ (/\ last.op \in {"get_endurance_percentage", "get_experience_percentage",
                        "detect_enemy_target", "get_player_stats", "detect_combat_state"}
        /\ FirstFailed(last.arg.caps) > 0)
       => /\ last.raised = "CaptureError" /\ last.v = PyNone
          /\ Len(last.requests) = FirstFailed(last.arg.caps)
          /\ monitors["bot"] = last.arg.mon
    /\ (last.op = "wait_for_health_recovery" /\ FailedSample > 0)
       => /\ last.raised = "CaptureError" /\ last.ret = FALSE
          /\ Len(last.requests) = FailedSample - 1
          /\ last.events = [i \in 1..(FailedSample - 1) |-> Sleep(1000)]

\* detect_combat_state on a monitor that had a baseline: the second capture
\* failed, the third was not taken, the baseline is as it was
C30_Witness ==
    /\ last.op = "detect_combat_state"
    /\ last.arg.mon = Seeded(PyInt(100))
    /\ last.arg.caps = <<Frame(4000, 0, 3200, 2250, 101), CaptureFailed, BlankFrame>>
    /\ last.raised = "CaptureError"
    /\ Len(last.requests) = 2
    /\ monitors["bot"] = Seeded(PyInt(100))

RECURSIVE OwnBaseline(_, _)
\* the baseline a monitor holds after the first k of its own calls cs, when
\* no other monitor has a part in it: the endurance of its latest call that
\* returned false
OwnBaseline(cs, k) ==
    IF k = 0 THEN [has_last |-> FALSE, last_endurance |-> PyNone]
    ELSE IF cs[k].raised = "none" /\ ~cs[k].ret
    THEN [has_last |-> TRUE, last_endurance |-> cs[k].endurance]
    ELSE OwnBaseline(cs, k - 1)

\* a call on one monitor leaves every other monitor as it was
OtherMonitorsUntouched ==
    \A m \in MonitorIds :
        calls'[m] # calls[m]
        => \A o \in MonitorIds \ {m} : monitors'[o] = monitors[o] /\ calls'[o] = calls[o]

\* C31: last_endurance belongs to one monitor: a detect_combat_state call on
\* one monitor changes no other monitor, each monitor's baseline and each
\* result of its calls follow from its own calls alone, and the first call on
\* a monitor returns false whatever the other has seen
C31_BaselinePerMonitor ==
    /\ [](\A m \in MonitorIds :
            /\ monitors[m].has_last = OwnBaseline(calls[m], Len(calls[m])).has_last
            /\ monitors[m].last_endurance
                 = OwnBaseline(calls[m], Len(calls[m])).last_endurance
            /\ \A k \in 1..Len(calls[m]) :
                 calls[m][k].raised = "none"
                 => calls[m][k].ret
                     = (/\ OwnBaseline(calls[m], k - 1).has_last
                        /\ NumLt(PyInt(5),
                                 NumSub(OwnBaseline(calls[m], k - 1).last_endurance,
                                        calls[m][k].endurance)))
            /\ (calls[m] # <<>> /\ calls[m][1].raised = "none") => ~calls[m][1].ret)
    /\ [][OtherMonitorsUntouched]_vars

\* the engine's monitor made its first call, reading 69 per cent, after the
\* bot's monitor had set a baseline of 100: it returned false, and the bot's
\* baseline is still 100
C31_Witness ==
    /\ Len(calls["bot"]) >= 1 /\ Len(calls["ai"]) = 1
    /\ calls["bot"][1].endurance = PyInt(100)
    /\ calls["ai"][1] = [raised |-> "none", ret |-> FALSE,
                         endurance |-> PyFloat(276000, 4000)]
    /\ monitors["bot"].last_endurance = PyInt(100)
    /\ monitors["ai"].last_endurance = PyFloat(276000, 4000)

RECURSIVE StepsOf(_)
\* what running a chain whose slots all have hotkeys sends: for each step the
\* key of its slot, then its wait
StepsOf(chain) ==
    IF chain = <<>> THEN <<>>
    ELSE <<Press(hotkeys[chain[1][1]]), Sleep(chain[1][2])>> \o StepsOf(Tail(chain))

\* what a step that is an add_custom_chain call does to the controller
AddsOnlyThatChain ==
    (last'.op = "add_custom_chain" /\ last' # last)
    => /\ GetAvailableChains(attacks') = GetAvailableChains(attacks) \cup {last'.arg.name}
       /\ attacks'.attack_chains[last'.arg.name] = last'.arg.chain
       /\ \A other \in GetAvailableChains(attacks) \ {last'.arg.name} :
            attacks'.attack_chains[other] = attacks.attack_chains[other]
       /\ attacks'.hotkeys = attacks.hotkeys
       /\ attacks'.ability_timings = attacks.ability_timings

\* C34: add_custom_chain(name, chain) makes the registry hold chain under
\* name, listed by get_available_chains and run by execute_attack_chain(name),
\* and changes no other chain, no hotkey and no ability timing; under a name
\* the registry holds already it replaces that chain only
C34_AddCustomChainOnlyAdds ==
    /\ [](/\ last.op = "add_custom_chain"
             => /\ last.arg.name \in GetAvailableChains(attacks)
                /\ attacks.attack_chains[last.arg.name] = last.arg.chain
          /\ (/\ last.op = "execute_attack_chain"
              /\ ~last.arg.interrupt_on_low_health
              /\ last.arg.chain_name \in GetAvailableChains(attacks))
             => IF \A i \in 1..Len(attacks.attack_chains[last.arg.chain_name]) :
                      attacks.attack_chains[last.arg.chain_name][i][1] \in DOMAIN hotkeys
                THEN /\ last.raised = "none"
                     /\ last.events = StepsOf(attacks.attack_chains[last.arg.chain_name])
                ELSE last.raised = "ValueError"
          /\ attacks.hotkeys = hotkeys
          /\ attacks.ability_timings = ability_timings)
    /\ [][AddsOnlyThatChain]_vars

\* basic_combo was replaced after finisher had been added, and the new
\* basic_combo was run: finisher and the other chains are as they were
C34_Witness ==
    /\ last.op = "execute_attack_chain"
    /\ last.arg.chain_name = "basic_combo"
    /\ ~last.arg.interrupt_on_low_health
    /\ attacks.attack_chains["basic_combo"] = << <<9, 500>> >>
    /\ "finisher" \in GetAvailableChains(attacks)
    /\ attacks.attack_chains["finisher"] = << <<1, 500>>, <<12, 500>> >>
    /\ \A other \in DOMAIN attack_chains \ {"basic_combo"} :
         attacks.attack_chains[other] = attack_chains[other]
    /\ last.events = <<Press("9"), Sleep(500)>>

\* C36: in every decision make_gameplay_decision returns, scenario is
\* analyze_game_state of the decision's own game_state, which holds the
\* in_combat and enemy_targeted flags the classification read, and timestamp
\* is the time of the call, whatever keys the model's reply carried
C36_ScenarioMatchesSnapshot ==
    Returned_mgd
    => /\ last.v.ty = "dict"
       /\ {"scenario", "game_state", "timestamp"} \subseteq DOMAIN last.v.items
       /\ last.v.items["game_state"].ty = "dict"
       /\ {"health", "endurance", "experience", "timestamp", "in_combat",
           "enemy_targeted"} = DOMAIN last.v.items["game_state"].items
       /\ last.v.items["game_state"].items["in_combat"].ty = "bool"
       /\ last.v.items["game_state"].items["enemy_targeted"].ty = "bool"
       /\ last.v.items["scenario"] = PyStr(AnalyzeGameState(last.v.items["game_state"]))
       /\ last.v.items["timestamp"] = PyFloat(clock, 1000)

\* the reply carried scenario "combat", a timestamp and an empty game_state;
\* the decision returned has the scenario of the state sampled, exploration,
\* and the reply's action
C36_Witness ==
    /\ Returned_mgd
    /\ last.env = Env("ok", ObjMeta("retreat"))
    /\ last.v.items["action"] = PyStr("retreat")
    /\ last.v.items["scenario"] = PyStr("exploration")
    /\ last.v.items["game_state"].items["health"] = PyInt(100)
    /\ ~last.v.items["game_state"].items["enemy_targeted"].b

\* C37: wait_for_health_recovery ends: each sample but the first follows a
\* sleep of 1 s, so with timeout > 0 it takes at most one sample per started
\* second of the timeout and, when it returns false, has run for less than
\* the timeout plus one turn; with timeout <= 0 it returns false at once, no
\* sample taken and no sleep made, whatever the health
C37_WaitTerminates ==
    last.op = "wait_for_health_recovery" =>
        LET n == Len(last.requests)
        IN /\ Len(last.events) <= n
           /\ n >= 1 => (n - 1) * 1000 < last.arg.timeout
           /\ (last.raised = "none" /\ ~last.ret /\ last.arg.timeout > 0)
                => /\ clock >= last.arg.timeout
                   /\ clock < last.arg.timeout + last.arg.cost + 1000
           /\ last.arg.timeout <= 0
                => /\ last.raised = "none" /\ ~last.ret
                   /\ last.requests = <<>> /\ last.events = <<>> /\ events = <<>>
                   /\ clock = 0

\* timeout 0 with the health at 90 per cent: false, no sample
C37_Witness ==
    /\ last.op = "wait_for_health_recovery"
    /\ last.arg.timeout = 0
    /\ last.arg.caps[1] = Frame(3600, 0, 0, 0, 0)
    /\ last.raised = "none" /\ ~last.ret
    /\ last.requests = <<>>

\* C35: once the session has ended and cleanup has run, every key that got a
\* key-down has got a key-up after it
C35_NoKeyHeldAtEnd ==
    pc = "done"
    => \A i \in 1..Len(events) :
          events[i].e = "keyDown"
          => \E j \in (i + 1)..Len(events) : events[j] = KeyUp(events[i].key)

\* the key of each timed primitive
OwnKey(op) ==
    CASE op = "move_forward" -> "w" [] op = "move_backward" -> "s"
      [] op = "strafe_left" -> "a" [] op = "strafe_right" -> "d"
      [] op = "turn_left" -> "q" [] op = "turn_right" -> "e"

\* C32: each timed movement primitive sends key-down, one sleep and key-up
\* for its own key and nothing else; the sleep is the duration given for a
\* move and angle / 180 s for a turn (90 gives 0.5 s, 180 gives 1 s); after
\* the call no key it pressed is down
C32_PrimitiveDownSleepUp ==
    last.op \in {"move_forward", "move_backward", "strafe_left", "strafe_right",
                 "turn_left", "turn_right"}
    => /\ Len(last.events) = 3
       /\ last.events[1] = [e |-> "keyDown", key |-> OwnKey(last.op), ms |-> 0]
       /\ last.events[2].e = "sleep"
       /\ last.events[3] = [e |-> "keyUp", key |-> OwnKey(last.op), ms |-> 0]
       /\ IF last.op \in {"turn_left", "turn_right"}
          THEN /\ last.events[2].ms * 180 <= last.arg * 1000
               /\ last.arg * 1000 < (last.events[2].ms + 1) * 180
               /\ last.arg = 90 => last.events[2].ms = 500
               /\ last.arg = 180 => last.events[2].ms = 1000
          ELSE last.events[2].ms = last.arg
       /\ Len(events) >= 3
       /\ SubSeq(events, Len(events) - 2, Len(events)) = last.events
       /\ \A i \in 1..Len(events) :
            events[i].e = "keyDown"
            => i < Len(events) - 1 /\ events[i + 2] = [events[i] EXCEPT !.e = "keyUp"]

\* a turn left by 90 degrees made after a strafe: q down, 0.5 s, q up
C32_Witness ==
    /\ last.op = "turn_left" /\ last.arg = 90
    /\ Len(events) = 6
    /\ events[1] = KeyDown("d")
    /\ last.events = <<KeyDown("q"), Sleep(500), KeyUp("q")>>

\* the bearing atan2(dy, dx) is above 10 degrees: tan(10 degrees) = 0.176327
BearingAbove10(dy, dx) ==
    \/ dy > 0 /\ (dx <= 0 \/ dy * 1000000 > dx * 176327)
    \/ dy = 0 /\ dx < 0

\* the bearing atan2(dy, dx) is below -10 degrees
BearingBelowMinus10(dy, dx) == dy < 0 /\ (dx <= 0 \/ (-dy) * 1000000 > dx * 176327)

\* ms is the time of a turn by min(|atan2(dy, dx)|, 45) degrees at 180 degrees
\* a second, rounded down: 250 ms from 45 degrees up; below, with
\* t = |dy| / dx < 1, the angle lies between 45 t and (180 / pi) t degrees
TurnTimeOk(ms, dy, dx) ==
    LET a == IF dy < 0 THEN -dy ELSE dy
    IN IF dx <= 0 \/ a >= dx THEN ms = 250
       ELSE /\ 250 * a < (ms + 1) * dx
            /\ ms * 31415 * dx <= 10000000 * a
            /\ ms < 250

\* the events evs are one turn with key, by the bearing capped at 45 degrees
TurnWith(evs, key, dy, dx) ==
    /\ evs[1] = [e |-> "keyDown", key |-> key, ms |-> 0]
    /\ evs[2].e = "sleep" /\ TurnTimeOk(evs[2].ms, dy, dx)
    /\ evs[3] = [e |-> "keyUp", key |-> key, ms |-> 0]

\* the events evs are one forward move of min(sqrt(d2) / 20, 2.0) seconds,
\* in ms rounded down
ForwardFor(evs, d2) ==
    /\ evs[1] = [e |-> "keyDown", key |-> "w", ms |-> 0]
    /\ evs[2].e = "sleep" /\ evs[2].ms <= 2000
    /\ IF d2 >= 1600 THEN evs[2].ms = 2000
       ELSE /\ evs[2].ms * evs[2].ms <= 2500 * d2
            /\ 2500 * d2 < (evs[2].ms + 1) * (evs[2].ms + 1)
    /\ evs[3] = [e |-> "keyUp", key |-> "w", ms |-> 0]

\* what a navigate_to_waypoint call with the offsets dx, dy returned and sent
NavigatedAs(ret, evs, dy, dx) ==
    /\ ret <=> dx * dx + dy * dy < 25
    /\ ret => evs = <<>>
    /\ ~ret =>
         /\ Len(evs) = IF BearingAbove10(dy, dx) \/ BearingBelowMinus10(dy, dx)
                       THEN 6 ELSE 3
         /\ BearingAbove10(dy, dx) => TurnWith(evs, "e", dy, dx)
         /\ BearingBelowMinus10(dy, dx) => TurnWith(evs, "q", dy, dx)
         /\ ForwardFor(SubSeq(evs, Len(evs) - 2, Len(evs)), dx * dx + dy * dy)

\* C33: navigate_to_waypoint returns true, no input event sent, iff the
\* distance to the waypoint is below 5; otherwise it returns false after at
\* most one turn (right by min(angle, 45) when the bearing is above 10
\* degrees, left by min(|angle|, 45) when it is below -10, none in between)
\* and then exactly one forward move of min(distance / 20, 2.0) seconds
C33_NavigateTurnsThenMoves ==
    last.op = "navigate_to_waypoint"
    => /\ NavigatedAs(last.ret, last.events, last.arg.y - last.arg.current_y,
                      last.arg.x - last.arg.current_x)
       /\ Len(events) >= Len(last.events)
       /\ SubSeq(events, Len(events) - Len(last.events) + 1, Len(events)) = last.events

\* a waypoint 13 away at a bearing of -22.6 degrees: a left turn of 125 ms,
\* then 0.65 s forward
C33_Witness ==
    /\ last.op = "navigate_to_waypoint"
    /\ last.arg = [x |-> 12, y |-> -5, current_x |-> 0, current_y |-> 0]
    /\ ~last.ret
    /\ last.events = <<KeyDown("q"), Sleep(125), KeyUp("q"),
                       KeyDown("w"), Sleep(650), KeyUp("w")>>

====
